---- MODULE Spec2Model ----
(***************************************************************************)
(* A model of the file-backed B+ tree of krasun/fbptree: the tree          *)
(* operations of fbptree.go, the iterator of iterator.go, the storage      *)
(* layer with its process-wide node cache, the node codec and the part of  *)
(* the pager and of the records layer that the tree relies on.             *)
(*                                                                         *)
(* Keys and values are byte strings in the program.  The model uses the    *)
(* one-byte strings 1..MaxKey and 1..MaxVal, ordered as bytes.Compare      *)
(* orders them; 0 stands for the nil slice.  The page size is taken large  *)
(* enough for every node to fit in the head page of its record, so a       *)
(* record is one page and a node id is a page id.  File operations are     *)
(* taken to succeed.                                                       *)
(*                                                                         *)
(* Go objects have identity: storage.loadNodeByID returns the very object  *)
(* held by the cache when there is one, and a fresh object decoded from    *)
(* the file otherwise.  Each operation is therefore interpreted over a     *)
(* machine state M with a heap of node objects:                            *)
(*   heap  : sequence of node objects, addressed 1..Len(heap)              *)
(*   cmap  : node id -> address of the cached object (0: not cached)       *)
(*   disk  : page id -> page contents                                      *)
(*   free  : the pager's free set,  last : the pager's lastPageId          *)
(*   dmeta : tree metadata in the file's custom metadata slot              *)
(*   meta  : t.metadata of the open handle                                 *)
(*   st    : "ok", "err" (an error was returned), "panic" (run-time        *)
(*           panic), "hang" (a loop that never ends)                       *)
(*   rv, rf: the value and the flag returned by the operation              *)
(*   a, b, k : registers for the results of the called functions           *)
(* pageSize is the page size recorded in the metadata block of the file, 0 *)
(* while the file does not exist.                                          *)
(* Every step is the identity once st is not "ok".                         *)
(***************************************************************************)
EXTENDS Integers, Sequences, FiniteSets, TLC

VARIABLES order, cache, disk, free, lastPageId, dmeta, meta, status, last, model, calls, pageSize

vars == <<order, cache, disk, free, lastPageId, dmeta, meta, status, last, model, calls, pageSize>>

(* Bounds of the model. *)
MaxKey == 3
MaxVal == 2
MaxOrd == 4
MaxCalls == 6
MaxOpenCalls == 2
MaxNilCalls == 3
MaxSplitKey == 5
MaxSplitCalls == 6
MaxLoadOrd == 5
MaxLoadKey == 13

(* Program constants. *)
minOrder == 3
maxOrder == 1000
maxKeySize == 65535
maxValueSize == 65535
minPageSize == 32
maxPageSize == 65535
defaultPageSize == 4096
firstFreePageId == 1

Keys == 1..MaxKey
Vals == 1..MaxVal
Orders == minOrder..MaxOrd

NilKey == 0
NilVal == 0

(* The slice of length 0 that is not nil: what copyBytes makes of a nil key.  The byte   *)
(* order does not tell it from nil; encodeNode does.                                     *)
EmptyKey == -1

(***************************************************************************)
(* Pointers and nodes.                                                     *)
(***************************************************************************)
NilP == [t |-> "nil", v |-> 0]
IdP(i) == [t |-> "id", v |-> i]
ValP(x) == [t |-> "val", v |-> x]
RawP(a) == [t |-> "raw", v |-> a]

(* What an index outside the pointer slice yields: the access panics. *)
OutP == [t |-> "out", v |-> 0]

isNodeID(p) == p.t = "id"
isValue(p) == p.t = "val"

NoMeta == [order |-> 0, rootID |-> 0, leftmostID |-> 0]
NoNode == [id |-> 0, leaf |-> FALSE, parentID |-> 0, keys |-> <<>>, keyNum |-> 0, pointers |-> <<>>]

ceil(x, y) == IF x % y = 0 THEN x \div y ELSE (x \div y) + 1

minKeyNum == ceil(order, 2) - 1

emptyKeys == [i \in 0..(order - 2) |-> NilKey]
emptyPointers == [i \in 0..(order - 1) |-> NilP]

lenKeys(n) == Cardinality(DOMAIN n.keys)
lenPointers(n) == Cardinality(DOMAIN n.pointers)

compare(x, y) ==
  LET rank(k) == IF k = EmptyKey THEN NilKey ELSE k
  IN IF rank(x) < rank(y) THEN -1 ELSE IF rank(x) > rank(y) THEN 1 ELSE 0
less(x, y) == compare(x, y) < 0

(* n.pointers[i]; OutP when i is outside the slice, which a node decoded from a misread   *)
(* image can bring about.                                                                *)
at(n, i) == IF i \in DOMAIN n.pointers THEN n.pointers[i] ELSE OutP

next(n) == at(n, lenPointers(n) - 1)
setNext(n, p) == [n EXCEPT !.pointers[lenPointers(n) - 1] = p]

(* The first index below n.keyNum whose key satisfies the test, n.keyNum when there is none. *)
firstPos(n, Test(_)) ==
  IF \E i \in 0..(n.keyNum - 1) : Test(n.keys[i])
  THEN CHOOSE i \in 0..(n.keyNum - 1) : Test(n.keys[i]) /\ \A j \in 0..(i - 1) : ~Test(n.keys[j])
  ELSE n.keyNum

keyPosition(n, key) ==
  LET Eq(x) == compare(key, x) = 0
      p == firstPos(n, Eq)
  IN IF p < n.keyNum THEN p ELSE -1

(* -1 when the node is not found; -2 when the scan meets a pointer that is not a node id, *)
(* on which asNodeID panics. *)
pointerPositionOf(n, x) ==
  LET hit(i) == n.pointers[i].t = "id" /\ n.pointers[i].v = x.id
      stop(i) == n.pointers[i] = NilP \/ n.pointers[i].t # "id" \/ hit(i)
  IN IF \E i \in DOMAIN n.pointers : stop(i)
     THEN LET i == CHOOSE i \in DOMAIN n.pointers : stop(i) /\ \A j \in 0..(i - 1) : ~stop(j)
          IN IF n.pointers[i] = NilP THEN -1 ELSE IF hit(i) THEN i ELSE -2
     ELSE -1

(* The highest indexes insertAt and deleteAt touch are inside the slices. *)
insertAtInRange(n, keyPosition_, pointerPosition) ==
  LET pointerNum == IF n.leaf THEN n.keyNum ELSE n.keyNum + 1 IN
  /\ (IF n.keyNum > keyPosition_ THEN n.keyNum ELSE keyPosition_) \in DOMAIN n.keys
  /\ (IF pointerNum > pointerPosition THEN pointerNum ELSE pointerPosition) \in DOMAIN n.pointers
  /\ keyPosition_ >= 0 /\ pointerPosition >= 0

deleteAtInRange(n, keyPosition_, pointerPosition) ==
  LET pointerNum == IF n.leaf THEN n.keyNum ELSE n.keyNum + 1 IN
  /\ n.keyNum - 1 \in DOMAIN n.keys
  /\ pointerNum - 1 \in DOMAIN n.pointers
  /\ keyPosition_ >= 0 /\ pointerPosition >= 0

insertAt(n, keyPosition_, key, pointerPosition, pointer) ==
  LET pointerNum == IF n.leaf THEN n.keyNum ELSE n.keyNum + 1 IN
  [n EXCEPT
    !.keys = [j \in DOMAIN n.keys |->
                IF j = keyPosition_ THEN key
                ELSE IF j > keyPosition_ /\ j <= n.keyNum THEN n.keys[j - 1] ELSE n.keys[j]],
    !.pointers = [j \in DOMAIN n.pointers |->
                IF j = pointerPosition THEN pointer
                ELSE IF j > pointerPosition /\ j <= pointerNum THEN n.pointers[j - 1] ELSE n.pointers[j]],
    !.keyNum = n.keyNum + 1]

deleteAt(n, keyPosition_, pointerPosition) ==
  LET pointerNum == IF n.leaf THEN n.keyNum ELSE n.keyNum + 1 IN
  [n EXCEPT
    !.keys = [j \in DOMAIN n.keys |->
                IF j = n.keyNum - 1 THEN NilKey
                ELSE IF j >= keyPosition_ /\ j < n.keyNum - 1 THEN n.keys[j + 1] ELSE n.keys[j]],
    !.pointers = [j \in DOMAIN n.pointers |->
                IF j = pointerNum - 1 THEN NilP
                ELSE IF j >= pointerPosition /\ j < pointerNum - 1 THEN n.pointers[j + 1] ELSE n.pointers[j]],
    !.keyNum = n.keyNum - 1]

(***************************************************************************)
(* Codec.  encodeNode writes the keys up to the first nil key, an empty key *)
(* that is not nil included, and the pointers up to the first nil pointer, *)
(* a pointer that is neither an id nor a value contributing no bytes;      *)
(* decodeNode reads keyNum keys and then pointerNum pointers.  With more   *)
(* keys written than keyNum, all of them empty, it takes the two length    *)
(* bytes of the first one for the pointer count, 0, and the next two bytes *)
(* for the length of the pointer slice: the pointer count that was written *)
(* when one key is extra, 0 when more are.  With fewer keys or pointers    *)
(* written than counted it reads the wrong bytes or past the end.          *)
(***************************************************************************)
encodedKeys(n) ==
  LET stop == IF \E i \in DOMAIN n.keys : n.keys[i] = NilKey
              THEN CHOOSE i \in DOMAIN n.keys : n.keys[i] = NilKey /\ \A j \in 0..(i - 1) : n.keys[j] # NilKey
              ELSE lenKeys(n)
  IN [i \in 0..(stop - 1) |-> n.keys[i]]

RECURSIVE pack(_, _, _)
pack(ps, i, stop) ==
  IF i >= stop THEN <<>>
  ELSE IF ps[i].t \in {"id", "val"} THEN <<ps[i]>> \o pack(ps, i + 1, stop)
  ELSE pack(ps, i + 1, stop)

encodedPointers(n) ==
  LET stop == IF \E i \in DOMAIN n.pointers : n.pointers[i] = NilP
              THEN CHOOSE i \in DOMAIN n.pointers : n.pointers[i] = NilP /\ \A j \in 0..(i - 1) : n.pointers[j] # NilP
              ELSE lenPointers(n)
  IN pack(n.pointers, 0, stop)

encodeNode(n) ==
  [id |-> n.id, parentID |-> n.parentID, leaf |-> n.leaf, keyNum |-> n.keyNum,
   keySlots |-> lenKeys(n), keys |-> encodedKeys(n),
   pointerNum |-> IF n.leaf THEN n.keyNum ELSE n.keyNum + 1,
   pointerSlots |-> lenPointers(n), pointers |-> encodedPointers(n)]

extraKeys(e) == Cardinality(DOMAIN e.keys) - e.keyNum

decodable(e) ==
  /\ e.keyNum <= e.keySlots
  /\ e.pointerNum <= e.pointerSlots
  /\ \/ extraKeys(e) = 0 /\ Len(e.pointers) >= e.pointerNum
     \/ extraKeys(e) > 0 /\ \A i \in e.keyNum..(Cardinality(DOMAIN e.keys) - 1) : e.keys[i] = EmptyKey

decodeNode(e) ==
  [id |-> e.id, leaf |-> e.leaf, parentID |-> e.parentID,
   keys |-> [i \in 0..(e.keySlots - 1) |-> IF i < e.keyNum THEN e.keys[i] ELSE NilKey],
   keyNum |-> e.keyNum,
   pointers |-> IF extraKeys(e) = 0
                THEN [i \in 0..(e.pointerSlots - 1) |-> IF i < e.pointerNum THEN e.pointers[i + 1] ELSE NilP]
                ELSE IF extraKeys(e) = 1 THEN [i \in 0..(e.pointerNum - 1) |-> NilP]
                ELSE [i \in 0..(-1) |-> NilP]]

encodeTreeMetadata(m) == <<m.order, m.rootID, m.leftmostID>>
decodeTreeMetadata(d) == [order |-> d[1], rootID |-> d[2], leftmostID |-> d[3]]

(* A page of the file: never written ("zero"), the free-page list, or the image of a node. *)
ZeroPage == [kind |-> "zero", e |-> <<>>]
ListPage == [kind |-> "list", e |-> <<>>]
NodePage(e) == [kind |-> "node", e |-> e]

copynode(n) ==
  [n EXCEPT !.keys = [i \in DOMAIN n.keys |-> IF n.keys[i] = NilKey THEN EmptyKey ELSE n.keys[i]],
            !.pointers = [i \in DOMAIN n.pointers |->
      IF n.pointers[i].t \in {"id", "val"} THEN n.pointers[i] ELSE NilP]]

(***************************************************************************)
(* Machine state and storage.                                              *)
(***************************************************************************)
fail(M, how) == [M EXCEPT !.st = how]
ok(M) == M.st = "ok"

(* The value of e, computed once, handed to F: the sequencing of two statements. *)
Bind(e, F(_)) == CHOOSE r \in {F(y) : y \in {e}} : TRUE

obj(M, a) == M.heap[a]
setObj(M, a, n) == [M EXCEPT !.heap[a] = n]
alloc(M, n) == [M EXCEPT !.heap = Append(@, n), !.a = Len(M.heap) + 1]

(* pager.new: a free page when there is one, a new page at the end of the file otherwise. *)
pagerNew(M) ==
  IF ~ok(M) THEN M
  ELSE IF M.free # {}
  THEN LET id == CHOOSE i \in M.free : \A j \in M.free : i <= j
       IN [M EXCEPT !.free = @ \ {id}, !.k = id]
  ELSE [M EXCEPT !.last = @ + 1,
                 !.disk = [i \in 1..(M.last + 1) |-> IF i <= M.last THEN M.disk[i] ELSE ZeroPage],
                 !.cmap = [i \in 1..(M.last + 1) |-> IF i <= M.last THEN M.cmap[i] ELSE 0],
                 !.k = M.last + 1]

(* pager.read fails for a free page and for a page outside the file. *)
readable(M, id) == id \in 1..M.last /\ id \notin M.free

newNode(M) == pagerNew(M)

updateNodeByID(M, nodeID, a) ==
  IF ~ok(M) THEN M
  ELSE IF ~readable(M, nodeID) THEN fail(M, "err")
  ELSE LET n == obj(M, a) IN
       [M EXCEPT !.disk[nodeID] = NodePage(encodeNode(n)),
                 !.heap = Append(@, copynode(n)),
                 !.cmap[nodeID] = Len(M.heap) + 1]

(* The address of the loaded node is left in register a. *)
loadNodeByID(M, nodeID) ==
  IF ~ok(M) THEN M
  ELSE IF nodeID \in DOMAIN M.cmap /\ M.cmap[nodeID] # 0 THEN [M EXCEPT !.a = M.cmap[nodeID]]
  ELSE IF ~readable(M, nodeID) THEN fail(M, "err")
  ELSE IF M.disk[nodeID].kind # "node" THEN fail(M, "panic")
  ELSE IF ~decodable(M.disk[nodeID].e) THEN fail(M, "panic")
  ELSE alloc(M, decodeNode(M.disk[nodeID].e))

deleteNodeByID(M, nodeID) ==
  IF ~ok(M) THEN M
  ELSE IF ~readable(M, nodeID) THEN fail(M, "err")
  ELSE [M EXCEPT !.free = @ \cup {nodeID}]

storageUpdateMetadata(M, m) ==
  IF ~ok(M) THEN M ELSE [M EXCEPT !.dmeta = encodeTreeMetadata(m)]

storageDeleteMetadata(M) ==
  IF ~ok(M) THEN M ELSE [M EXCEPT !.dmeta = <<>>]

loadMetadata(d) == IF d = <<>> THEN NoMeta ELSE decodeTreeMetadata(d)

asNodeID(M, p) == IF ~ok(M) THEN M ELSE IF p.t = "id" THEN [M EXCEPT !.k = p.v] ELSE fail(M, "panic")

(***************************************************************************)
(* Get                                                                     *)
(***************************************************************************)
RECURSIVE descend(_, _, _, _)
descend(M, a, key, fuel) ==
  IF ~ok(M) THEN M
  ELSE LET current == obj(M, a)
           Lt(x) == less(key, x)
       IN
    IF current.leaf THEN [M EXCEPT !.a = a]
    ELSE IF fuel = 0 THEN fail(M, "hang")
    ELSE Bind(asNodeID(M, at(current, firstPos(current, Lt))), LAMBDA m1 :
         Bind(loadNodeByID(m1, m1.k), LAMBDA m2 :
         descend(m2, m2.a, key, fuel - 1)))

findLeaf(M, key) ==
  Bind(loadNodeByID(M, M.meta.rootID), LAMBDA m1 : descend(m1, m1.a, key, M.last + 1))

ret(M, v, f) == IF ~ok(M) THEN M ELSE [M EXCEPT !.rv = v, !.rf = f]

Get(M, key) ==
  IF M.meta = NoMeta THEN ret(M, NilVal, FALSE)
  ELSE Bind(findLeaf(M, key), LAMBDA m1 :
    IF ~ok(m1) THEN m1
    ELSE LET leaf == obj(m1, m1.a)
             i == keyPosition(leaf, key)
         IN IF i = -1 THEN ret(m1, NilVal, FALSE)
            ELSE IF isValue(at(leaf, i)) THEN ret(m1, at(leaf, i).v, TRUE)
            ELSE fail(m1, "panic"))

(***************************************************************************)
(* Put                                                                     *)
(***************************************************************************)
updateMetadata(M, rootID, leftmostID) ==
  IF ~ok(M) THEN M
  ELSE LET m == [order |-> order, rootID |-> rootID, leftmostID |-> leftmostID]
       IN storageUpdateMetadata([M EXCEPT !.meta = m], m)

deleteMetadata(M) ==
  IF ~ok(M) THEN M ELSE storageDeleteMetadata([M EXCEPT !.meta = NoMeta])

updateRootID(M, rootID) ==
  IF ~ok(M) THEN M ELSE updateMetadata(M, rootID, IF M.meta # NoMeta THEN M.meta.leftmostID ELSE 0)

initializeRoot(M, key, value) ==
  Bind(newNode(M), LAMBDA m1 :
  Bind(alloc(m1, [id |-> m1.k, leaf |-> TRUE, parentID |-> 0,
                  keys |-> [emptyKeys EXCEPT ![0] = key], keyNum |-> 1,
                  pointers |-> [emptyPointers EXCEPT ![0] = ValP(value)]]), LAMBDA m2 :
  Bind(updateNodeByID(m2, m1.k, m2.a), LAMBDA m3 :
  updateMetadata(m3, m1.k, m1.k))))

putIntoNewRoot(M, key, l, r) ==
  IF ~ok(M) THEN M
  ELSE
  Bind(newNode(M), LAMBDA m1 :
  Bind(alloc(m1, [id |-> m1.k, leaf |-> FALSE, parentID |-> 0,
                  keys |-> [emptyKeys EXCEPT ![0] = key], keyNum |-> 1,
                  pointers |-> [emptyPointers EXCEPT ![0] = IdP(obj(M, l).id), ![1] = IdP(obj(M, r).id)]]), LAMBDA m2 :
  Bind(updateNodeByID(m2, m1.k, m2.a), LAMBDA m3 :
  Bind(IF ok(m3) THEN setObj(m3, l, [obj(m3, l) EXCEPT !.parentID = m1.k]) ELSE m3, LAMBDA m4 :
  Bind(updateNodeByID(m4, obj(M, l).id, l), LAMBDA m5 :
  Bind(IF ok(m5) THEN setObj(m5, r, [obj(m5, r) EXCEPT !.parentID = m1.k]) ELSE m5, LAMBDA m6 :
  Bind(updateNodeByID(m6, obj(M, r).id, r), LAMBDA m7 :
  updateRootID(m7, m1.k))))))))

(* Shift the keys and pointers from insertPos up by one and put k and p there. *)
shiftInsert(n, insertPos, k, p) ==
  [n EXCEPT
    !.keys = [j \in DOMAIN n.keys |->
                IF j = insertPos THEN k
                ELSE IF j > insertPos /\ j <= n.keyNum THEN n.keys[j - 1] ELSE n.keys[j]],
    !.pointers = [j \in DOMAIN n.pointers |->
                IF j = insertPos THEN p
                ELSE IF j > insertPos /\ j <= n.keyNum THEN n.pointers[j - 1] ELSE n.pointers[j]],
    !.keyNum = n.keyNum + 1]

(* The same for an internal node: the pointers right of insertPos move up by one and *)
(* the two pointers around the new key are set. *)
shiftInsertPair(n, insertPos, k, pl, pr) ==
  [n EXCEPT
    !.keys = [j \in DOMAIN n.keys |->
                IF j = insertPos THEN k
                ELSE IF j > insertPos /\ j <= n.keyNum THEN n.keys[j - 1] ELSE n.keys[j]],
    !.pointers = [j \in DOMAIN n.pointers |->
                IF j = insertPos THEN pl
                ELSE IF j = insertPos + 1 THEN pr
                ELSE IF j > insertPos + 1 /\ j <= n.keyNum + 1 THEN n.pointers[j - 1] ELSE n.pointers[j]],
    !.keyNum = n.keyNum + 1]

(* The two halves hung below a new node that takes the place of the left one in the parent. *)
putIntoSubtree(M, pa, k, l, r) ==
  IF ~ok(M) THEN M
  ELSE
  Bind(newNode(M), LAMBDA m1 :
  Bind(alloc(m1, [id |-> m1.k, leaf |-> FALSE, parentID |-> obj(M, pa).id,
                  keys |-> [emptyKeys EXCEPT ![0] = k], keyNum |-> 1,
                  pointers |-> [emptyPointers EXCEPT ![0] = IdP(obj(M, l).id), ![1] = IdP(obj(M, r).id)]]), LAMBDA m2 :
  Bind(updateNodeByID(m2, m1.k, m2.a), LAMBDA m3 :
  Bind(IF ok(m3)
       THEN setObj(m3, pa, [obj(m3, pa) EXCEPT !.pointers =
              [j \in DOMAIN obj(m3, pa).pointers |->
                 IF obj(m3, pa).pointers[j] = IdP(obj(M, l).id) THEN IdP(m1.k) ELSE obj(m3, pa).pointers[j]]])
       ELSE m3, LAMBDA m4 :
  updateNodeByID(m4, obj(M, pa).id, pa)))))

putIntoParent(M, pa, k, l, r) ==
  IF ~ok(M) THEN M
  ELSE LET parent == obj(M, pa)
           Lt(x) == less(k, x)
           insertPos == firstPos(parent, Lt)
       IN
  IF parent.keyNum + 1 \notin DOMAIN parent.pointers THEN fail(M, "panic")
  ELSE
  Bind(setObj(M, pa, shiftInsertPair(parent, insertPos, k, IdP(obj(M, l).id), IdP(obj(M, r).id))), LAMBDA m1 :
  Bind(updateNodeByID(m1, parent.id, pa), LAMBDA m2 :
  Bind(IF ok(m2) THEN setObj(m2, l, [obj(m2, l) EXCEPT !.parentID = parent.id]) ELSE m2, LAMBDA m3 :
  Bind(updateNodeByID(m3, obj(M, l).id, l), LAMBDA m4 :
  Bind(IF ok(m4) THEN setObj(m4, r, [obj(m4, r) EXCEPT !.parentID = parent.id]) ELSE m4, LAMBDA m5 :
  updateNodeByID(m5, obj(M, r).id, r))))))

(* The middle of the order instead of the middle of the key slots. *)
middlePosOfOrder(n) == ceil(lenKeys(n) + 1, 2)

middlePosOf(n) == ceil(lenKeys(n), 2)
copyFromOf(n, insertPos) == IF insertPos < middlePosOf(n) THEN middlePosOf(n) - 1 ELSE middlePosOf(n)

(* Registers on return: a the left node (the given one), b the new right node. *)
putIntoLeafAndSplit(M, a, insertPos, k, v) ==
  IF ~ok(M) THEN M
  ELSE LET n == obj(M, a)
           middlePos == middlePosOf(n)
           copyFrom == copyFromOf(n, insertPos)
           intoRight == insertPos >= middlePos
           pos == IF intoRight THEN insertPos - middlePos ELSE insertPos
       IN
  Bind(newNode(M), LAMBDA m1 :
  Bind([id |-> m1.k, leaf |-> TRUE, parentID |-> 0,
        keys |-> [i \in DOMAIN emptyKeys |->
                    IF copyFrom + i < lenKeys(n) THEN n.keys[copyFrom + i] ELSE NilKey],
        keyNum |-> 0,
        pointers |-> [i \in DOMAIN emptyPointers |->
                    IF copyFrom + i < lenPointers(n) - 1 THEN n.pointers[copyFrom + i] ELSE NilP]], LAMBDA right0 :
  Bind([setNext(right0, next(n)) EXCEPT !.keyNum = lenKeys(right0) - copyFrom], LAMBDA right1 :
  Bind([n EXCEPT !.parentID = 0, !.keyNum = copyFrom,
        !.keys = [i \in DOMAIN n.keys |-> IF i >= copyFrom THEN NilKey ELSE n.keys[i]],
        !.pointers = [i \in DOMAIN n.pointers |->
                    IF i >= copyFrom /\ i <= lenKeys(n) - 1 THEN NilP ELSE n.pointers[i]]], LAMBDA left0 :
  Bind(setNext(left0, IdP(m1.k)), LAMBDA left1 :
  Bind(IF intoRight THEN left1 ELSE insertAt(left1, pos, k, pos, ValP(v)), LAMBDA left2 :
  Bind(IF intoRight THEN insertAt(right1, pos, k, pos, ValP(v)) ELSE right1, LAMBDA right2 :
  Bind(setObj(m1, a, left2), LAMBDA m1a :
  Bind(alloc(m1a, right2), LAMBDA m2 :
  [m2 EXCEPT !.a = a, !.b = m2.a])))))))))

(* Give every child named in the pointers of the node at address na the parent id of that node. *)
RECURSIVE fixParents(_, _, _)
fixParents(M, na, i) ==
  IF ~ok(M) THEN M
  ELSE IF i >= lenPointers(obj(M, na)) THEN M
  ELSE LET p == obj(M, na).pointers[i] IN
    IF p = NilP THEN fixParents(M, na, i + 1)
    ELSE
    Bind(asNodeID(M, p), LAMBDA m1 :
    Bind(loadNodeByID(m1, m1.k), LAMBDA m2 :
      IF ~ok(m2) THEN m2
      ELSE IF obj(m2, m2.a).parentID = obj(m2, na).id THEN fixParents(m2, na, i + 1)
      ELSE
      Bind(setObj(m2, m2.a, [obj(m2, m2.a) EXCEPT !.parentID = obj(m2, na).id]), LAMBDA m3 :
      Bind(updateNodeByID(m3, obj(m3, m2.a).id, m2.a), LAMBDA m4 :
      fixParents(m4, na, i + 1)))))

(* The right node after its first key has been taken out as the middle key. *)
cleanUpRight(right) ==
  [right EXCEPT
    !.keys = [i \in DOMAIN right.keys |->
                IF i <= right.keyNum - 2 THEN right.keys[i + 1]
                ELSE IF i = right.keyNum - 1 THEN NilKey ELSE right.keys[i]],
    !.pointers = [i \in DOMAIN right.pointers |->
                IF i <= right.keyNum - 1 THEN right.pointers[i + 1]
                ELSE IF i = right.keyNum THEN NilP ELSE right.pointers[i]],
    !.keyNum = right.keyNum - 1]

(* Registers on return: key the middle key, a the left node (the given parent), b the new right node. *)
putIntoParentAndSplit(M, pa, k, l, r) ==
  IF ~ok(M) THEN M
  ELSE LET parent == obj(M, pa)
           Lt(x) == less(k, x)
           insertPos == firstPos(parent, Lt)
           middlePos == middlePosOf(parent)
           copyFrom == copyFromOf(parent, insertPos)
           intoRight == insertPos >= middlePos
           pos == IF intoRight THEN insertPos - middlePos ELSE insertPos
       IN
  Bind(newNode(M), LAMBDA m1 :
  Bind([id |-> m1.k, leaf |-> FALSE, parentID |-> 0,
        keys |-> [i \in DOMAIN emptyKeys |->
                    IF copyFrom + i < lenKeys(parent) THEN parent.keys[copyFrom + i] ELSE NilKey],
        keyNum |-> (order - 1) - copyFrom,
        pointers |-> [i \in DOMAIN emptyPointers |->
                    IF copyFrom + i < lenPointers(parent) THEN parent.pointers[copyFrom + i] ELSE NilP]], LAMBDA right1 :
  Bind([parent EXCEPT !.keyNum = copyFrom,
        !.keys = [i \in DOMAIN parent.keys |-> IF i >= copyFrom THEN NilKey ELSE parent.keys[i]],
        !.pointers = [i \in DOMAIN parent.pointers |->
                    IF i >= copyFrom + 1 THEN NilP ELSE parent.pointers[i]]], LAMBDA left1 :
  Bind(IF intoRight THEN left1 ELSE shiftInsertPair(left1, pos, k, RawP(l), RawP(r)), LAMBDA left2 :
  Bind(IF intoRight THEN shiftInsertPair(right1, pos, k, RawP(l), RawP(r)) ELSE right1, LAMBDA right2 :
  Bind(cleanUpRight(right2), LAMBDA right3 :
  Bind(setObj(m1, pa, left2), LAMBDA m1a :
  Bind(alloc(m1a, right3), LAMBDA m2 :
  Bind(IF intoRight THEN m1.k ELSE parent.id, LAMBDA insertNodeID :
  Bind(setObj(m2, l, [obj(m2, l) EXCEPT !.parentID = insertNodeID]), LAMBDA m3 :
  Bind(setObj(m3, r, [obj(m3, r) EXCEPT !.parentID = insertNodeID]), LAMBDA m4 :
  Bind(fixParents(m4, pa, 0), LAMBDA m5 :
  Bind(fixParents(m5, m2.a, 0), LAMBDA m6 :
  IF ~ok(m6) THEN m6 ELSE [m6 EXCEPT !.key = right2.keys[0], !.a = pa, !.b = m2.a])))))))))))))

(* A failed load of a parent panics: the error message reads a field of the nil node. *)
loadParent(M, parentID) ==
  IF ~ok(M) THEN M
  ELSE IF parentID = 0 THEN [M EXCEPT !.a = 0]
  ELSE Bind(loadNodeByID(M, parentID), LAMBDA m1 :
       IF m1.st = "err" THEN fail(M, "panic") ELSE m1)

(* The loop that carries the separator up: pa is the parent (0: none), l and r the two halves. *)
RECURSIVE propagate(_, _, _, _, _, _)
propagate(M, pa, insertKey, l, r, fuel) ==
  IF ~ok(M) THEN M
  ELSE IF pa = 0
  THEN Bind(putIntoNewRoot(M, insertKey, l, r), LAMBDA m1 :
       IF m1.st = "err" THEN [m1 EXCEPT !.st = "ok"] ELSE m1)
  ELSE IF obj(M, pa).keyNum < lenKeys(obj(M, pa))
  THEN putIntoParent(M, pa, insertKey, l, r)
  ELSE IF fuel = 0 THEN fail(M, "hang")
  ELSE Bind(putIntoParentAndSplit(M, pa, insertKey, l, r), LAMBDA m1 :
       IF ~ok(m1) THEN m1
       ELSE Bind(loadParent(m1, obj(m1, pa).parentID), LAMBDA m2 :
            IF ~ok(m2) THEN m2 ELSE propagate(m2, m2.a, m1.key, m1.a, m1.b, fuel - 1)))

putIntoLeaf(M, a, k, v) ==
  IF ~ok(M) THEN M
  ELSE LET n == obj(M, a)
           Le(x) == compare(k, x) <= 0
           insertPos == firstPos(n, Le)
       IN IF insertPos < n.keyNum /\ compare(k, n.keys[insertPos]) = 0
          THEN IF ~isValue(at(n, insertPos)) THEN fail(M, "panic")
               ELSE Bind(setObj(M, a, [n EXCEPT !.pointers[insertPos] = ValP(v)]), LAMBDA m1 :
                    Bind(updateNodeByID(m1, n.id, a), LAMBDA m2 :
                    ret(m2, n.pointers[insertPos].v, TRUE)))
          ELSE IF n.keyNum < lenKeys(n)
          THEN IF n.keyNum \notin DOMAIN n.pointers THEN fail(M, "panic")
               ELSE Bind(setObj(M, a, shiftInsert(n, insertPos, k, ValP(v))), LAMBDA m1 :
                    ret(m1, NilVal, FALSE))
          ELSE Bind(loadParent(M, n.parentID), LAMBDA m1 :
               Bind(putIntoLeafAndSplit(m1, a, insertPos, k, v), LAMBDA m2 :
               IF ~ok(m2) THEN m2
               ELSE Bind(propagate(m2, m1.a, obj(m2, m2.b).keys[0], m2.a, m2.b, m2.last + 1), LAMBDA m3 :
                    ret(m3, NilVal, FALSE))))

Put(M, key, value) ==
  IF M.meta = NoMeta
  THEN Bind(initializeRoot(M, key, value), LAMBDA m1 : ret(m1, NilVal, FALSE))
  ELSE Bind(findLeaf(M, key), LAMBDA m1 : putIntoLeaf(m1, m1.a, key, value))

(* Put with the lengths of its arguments.  A key of the model stands for its place in    *)
(* the byte order; the length matters to the size checks only.                           *)
PutBytesOffByOne(M, key, keySize, value, valueSize) ==
  IF keySize >= maxKeySize THEN fail(M, "err")
  ELSE IF valueSize >= maxValueSize THEN fail(M, "err")
  ELSE Put(M, key, value)

PutBytes(M, key, keySize, value, valueSize) ==
  IF keySize > maxKeySize THEN fail(M, "err")
  ELSE IF valueSize > maxValueSize THEN fail(M, "err")
  ELSE Put(M, key, value)

(***************************************************************************)
(* Delete                                                                  *)
(***************************************************************************)
(* node.append: a panic when the key slot keyNum does not exist. *)
append(M, na, key, p) ==
  IF ~ok(M) THEN M
  ELSE LET n == obj(M, na)
           keyPosition_ == n.keyNum
           pointerPosition == IF ~n.leaf /\ at(n, n.keyNum) # NilP THEN n.keyNum + 1 ELSE n.keyNum
       IN IF keyPosition_ \notin DOMAIN n.keys \/ pointerPosition \notin DOMAIN n.pointers THEN fail(M, "panic")
          ELSE
          Bind(setObj(M, na, [n EXCEPT !.keys[keyPosition_] = key,
                                       !.pointers[pointerPosition] = p,
                                       !.keyNum = n.keyNum + 1]), LAMBDA m1 :
          IF n.leaf THEN m1
          ELSE
          Bind(asNodeID(m1, p), LAMBDA m2 :
          Bind(loadNodeByID(m2, m2.k), LAMBDA m3 :
          Bind(IF ok(m3) THEN setObj(m3, m3.a, [obj(m3, m3.a) EXCEPT !.parentID = n.id]) ELSE m3, LAMBDA m4 :
          updateNodeByID(m4, m2.k, m3.a)))))

RECURSIVE appendAll(_, _, _, _)
appendAll(M, na, from, i) ==
  IF ~ok(M) THEN M
  ELSE IF i >= from.keyNum THEN M
  ELSE IF i \notin DOMAIN from.pointers THEN fail(M, "panic")
  ELSE Bind(append(M, na, from.keys[i], from.pointers[i]), LAMBDA m1 :
       appendAll(m1, na, from, i + 1))

copyFromRight(M, na, fa) ==
  IF ~ok(M) THEN M
  ELSE
  Bind(obj(M, fa), LAMBDA from :
  Bind(appendAll(M, na, from, 0), LAMBDA m1 :
  IF ~ok(m1) THEN m1
  ELSE IF obj(m1, na).leaf
  THEN IF lenPointers(obj(m1, na)) = 0 \/ lenPointers(from) = 0 THEN fail(m1, "panic")
       ELSE setObj(m1, na, setNext(obj(m1, na), next(from)))
  ELSE LET n == obj(m1, na) IN
  IF n.keyNum \notin DOMAIN n.pointers \/ from.keyNum \notin DOMAIN from.pointers THEN fail(m1, "panic")
  ELSE
  Bind(setObj(m1, na, [n EXCEPT !.pointers[n.keyNum] = from.pointers[from.keyNum]]), LAMBDA m2 :
  Bind(asNodeID(m2, from.pointers[from.keyNum]), LAMBDA m3 :
  Bind(loadNodeByID(m3, m3.k), LAMBDA m4 :
  Bind(IF ok(m4) THEN setObj(m4, m4.a, [obj(m4, m4.a) EXCEPT !.parentID = n.id]) ELSE m4, LAMBDA m5 :
  updateNodeByID(m5, obj(m5, m4.a).id, m4.a)))))))

(* The sibling variables declared before the two borrow blocks are never assigned: each *)
(* block declares its own leftSibling or rightSibling with := and the outer ones stay nil. *)
outerLeftSibling == 0
outerRightSibling == 0

(* The load of a sibling named by a pointer of the parent; its address is left in register a. *)
loadSibling(M, p) ==
  Bind(asNodeID(M, p), LAMBDA m1 : loadNodeByID(m1, m1.k))

(* rebalanceParentNode: borrow the last child of the left sibling at address la. *)
borrowFromLeftParent(M, na, pa, la, keyPositionInParent) ==
  LET n == obj(M, na)
      parent == obj(M, pa)
      leftSibling == obj(M, la)
      splitKey == parent.keys[keyPositionInParent]
  IN
  IF leftSibling.keyNum \notin DOMAIN leftSibling.pointers THEN fail(M, "panic")
  ELSE
  Bind(asNodeID(M, leftSibling.pointers[leftSibling.keyNum]), LAMBDA l3 :
  Bind(loadNodeByID(l3, l3.k), LAMBDA l4 :
  Bind(IF ok(l4) THEN setObj(l4, l4.a, [obj(l4, l4.a) EXCEPT !.parentID = n.id]) ELSE l4, LAMBDA l5 :
  Bind(updateNodeByID(l5, obj(l5, l4.a).id, l4.a), LAMBDA l6 :
  IF ~ok(l6) THEN l6
  ELSE IF ~insertAtInRange(obj(l6, na), 0, 0) THEN fail(l6, "panic")
  ELSE
  Bind(setObj(l6, na, insertAt(obj(l6, na), 0, splitKey, 0, leftSibling.pointers[leftSibling.keyNum])), LAMBDA l7 :
  Bind(setObj(l7, pa, [obj(l7, pa) EXCEPT !.keys[keyPositionInParent] = leftSibling.keys[leftSibling.keyNum - 1]]), LAMBDA l8 :
  Bind(setObj(l8, la, deleteAt(obj(l8, la), leftSibling.keyNum - 1, leftSibling.keyNum)), LAMBDA l9 :
  Bind(updateNodeByID(l9, parent.id, pa), LAMBDA l10 :
  updateNodeByID(l10, leftSibling.id, la)))))))))

(* rebalanceParentNode: borrow the first child of the right sibling at address ra. *)
borrowFromRightParent(M, na, pa, ra, rightSiblingPosition) ==
  LET parent == obj(M, pa)
      rightSibling == obj(M, ra)
      splitKeyPosition == rightSiblingPosition - 1
  IN
  IF splitKeyPosition \notin DOMAIN parent.keys \/ 0 \notin DOMAIN rightSibling.pointers THEN fail(M, "panic")
  ELSE
  Bind(append(M, na, parent.keys[splitKeyPosition], rightSibling.pointers[0]), LAMBDA r3 :
  IF ~ok(r3) THEN r3
  ELSE IF ~deleteAtInRange(obj(r3, ra), 0, 0) THEN fail(r3, "panic")
  ELSE
  Bind(setObj(r3, pa, [obj(r3, pa) EXCEPT !.keys[splitKeyPosition] = obj(r3, ra).keys[0]]), LAMBDA r4 :
  Bind(setObj(r4, ra, deleteAt(obj(r4, ra), 0, 0)), LAMBDA r5 :
  Bind(updateNodeByID(r5, parent.id, pa), LAMBDA r6 :
  updateNodeByID(r6, rightSibling.id, ra)))))

(* rebalanceParentNode: the merge with the sibling held by the outer variables. *)
mergeParent(M, na, pa, keyPositionInParent, pointerPositionInParent, rightSiblingPosition) ==
  LET n == obj(M, na)
      parent == obj(M, pa)
  IN
  IF outerLeftSibling # 0
  THEN LET ls == obj(M, outerLeftSibling) IN
       Bind(setObj(M, outerLeftSibling,
                   [ls EXCEPT !.keys[ls.keyNum] = parent.keys[keyPositionInParent], !.keyNum = ls.keyNum + 1]), LAMBDA x1 :
       Bind(copyFromRight(x1, outerLeftSibling, na), LAMBDA x2 :
       Bind(IF ok(x2) THEN setObj(x2, pa, deleteAt(obj(x2, pa), keyPositionInParent, pointerPositionInParent)) ELSE x2, LAMBDA x3 :
       updateNodeByID(x3, parent.id, pa))))
  ELSE IF outerRightSibling # 0
  THEN Bind(setObj(M, na, [n EXCEPT !.keys[n.keyNum] = parent.keys[keyPositionInParent], !.keyNum = n.keyNum + 1]), LAMBDA x1 :
       Bind(copyFromRight(x1, na, outerRightSibling), LAMBDA x2 :
       Bind(IF ok(x2) THEN setObj(x2, pa, deleteAt(obj(x2, pa), keyPositionInParent, rightSiblingPosition)) ELSE x2, LAMBDA x3 :
       updateNodeByID(x3, parent.id, pa))))
  ELSE M

RECURSIVE rebalanceParentNode(_, _, _)
rebalanceParentNode(M, na, fuel) ==
  IF ~ok(M) THEN M
  ELSE LET n == obj(M, na) IN
  IF n.parentID = 0
  THEN IF n.keyNum = 0
       THEN Bind(asNodeID(M, at(n, 0)), LAMBDA m1 :
            Bind(loadNodeByID(m1, m1.k), LAMBDA m2 :
            Bind(IF ok(m2) THEN setObj(m2, m2.a, [obj(m2, m2.a) EXCEPT !.parentID = 0]) ELSE m2, LAMBDA m3 :
            Bind(updateNodeByID(m3, m1.k, m2.a), LAMBDA m4 :
            updateRootID(m4, m1.k)))))
       ELSE M
  ELSE IF n.keyNum >= minKeyNum THEN M
  ELSE IF fuel = 0 THEN fail(M, "hang")
  ELSE
  Bind(loadNodeByID(M, n.parentID), LAMBDA m1 :
  IF ~ok(m1) THEN m1
  ELSE LET pa == m1.a
           parent == obj(m1, pa)
           pointerPositionInParent == pointerPositionOf(parent, n)
           keyPositionInParent == IF pointerPositionInParent - 1 < 0 THEN 0 ELSE pointerPositionInParent - 1
           leftSiblingPosition == pointerPositionInParent - 1
           rightSiblingPosition == pointerPositionInParent + 1
       IN
  IF pointerPositionInParent = -2 THEN fail(m1, "panic")
  ELSE
  Bind(IF leftSiblingPosition >= 0 THEN loadSibling(m1, at(parent, leftSiblingPosition)) ELSE m1, LAMBDA afterLeft :
  IF ~ok(afterLeft) THEN afterLeft
  ELSE IF leftSiblingPosition >= 0 /\ obj(afterLeft, afterLeft.a).keyNum > minKeyNum
  THEN borrowFromLeftParent(afterLeft, na, pa, afterLeft.a, keyPositionInParent)
  ELSE
  Bind(IF rightSiblingPosition < parent.keyNum + 1
       THEN loadSibling(afterLeft, at(obj(afterLeft, pa), rightSiblingPosition))
       ELSE afterLeft, LAMBDA afterRight :
  IF ~ok(afterRight) THEN afterRight
  ELSE IF rightSiblingPosition < parent.keyNum + 1 /\ obj(afterRight, afterRight.a).keyNum > minKeyNum
  THEN borrowFromRightParent(afterRight, na, pa, afterRight.a, rightSiblingPosition)
  ELSE
  Bind(mergeParent(afterRight, na, pa, keyPositionInParent, pointerPositionInParent, rightSiblingPosition), LAMBDA g1 :
  rebalanceParentNode(g1, pa, fuel - 1)))))

(* rebalanceFromLeafNode: borrow the last pair of the left sibling at address la. *)
borrowFromLeftLeaf(M, na, pa, la, keyPositionInParent) ==
  LET n == obj(M, na)
      parent == obj(M, pa)
      leftSibling == obj(M, la)
  IN
  IF leftSibling.keyNum - 1 \notin DOMAIN leftSibling.pointers THEN fail(M, "panic")
  ELSE IF ~insertAtInRange(n, 0, 0) THEN fail(M, "panic")
  ELSE
  Bind(setObj(M, na, insertAt(n, 0, leftSibling.keys[leftSibling.keyNum - 1],
                              0, leftSibling.pointers[leftSibling.keyNum - 1])), LAMBDA l3 :
  Bind(setObj(l3, la, deleteAt(obj(l3, la), leftSibling.keyNum - 1, leftSibling.keyNum - 1)), LAMBDA l4 :
  Bind(setObj(l4, pa, [obj(l4, pa) EXCEPT !.keys[keyPositionInParent] = obj(l4, na).keys[0]]), LAMBDA l5 :
  Bind(updateNodeByID(l5, n.id, na), LAMBDA l6 :
  Bind(updateNodeByID(l6, leftSibling.id, la), LAMBDA l7 :
  updateNodeByID(l7, parent.id, pa))))))

(* rebalanceFromLeafNode: borrow the first pair of the right sibling at address ra. *)
borrowFromRightLeaf(M, na, pa, ra, rightSiblingPosition) ==
  LET parent == obj(M, pa)
      rightSibling == obj(M, ra)
  IN
  IF 0 \notin DOMAIN rightSibling.pointers THEN fail(M, "panic")
  ELSE
  Bind(append(M, na, rightSibling.keys[0], rightSibling.pointers[0]), LAMBDA r3 :
  Bind(IF ~ok(r3) THEN r3
       ELSE IF ~deleteAtInRange(obj(r3, ra), 0, 0) THEN fail(r3, "panic")
       ELSE setObj(r3, ra, deleteAt(obj(r3, ra), 0, 0)), LAMBDA r4 :
  Bind(IF ~ok(r4) THEN r4
       ELSE IF rightSiblingPosition - 1 \notin DOMAIN parent.keys THEN fail(r4, "panic")
       ELSE setObj(r4, pa, [obj(r4, pa) EXCEPT !.keys[rightSiblingPosition - 1] = obj(r4, ra).keys[0]]), LAMBDA r5 :
  Bind(updateNodeByID(r5, rightSibling.id, ra), LAMBDA r6 :
  updateNodeByID(r6, parent.id, pa)))))

(* rebalanceFromLeafNode: the merge with the sibling held by the outer variables. *)
mergeLeaf(M, na, pa, keyPositionInParent, pointerPositionInParent, rightSiblingPosition) ==
  IF outerLeftSibling # 0
  THEN Bind(copyFromRight(M, outerLeftSibling, na), LAMBDA x1 :
       Bind(IF ok(x1) THEN setObj(x1, pa, deleteAt(obj(x1, pa), keyPositionInParent, pointerPositionInParent)) ELSE x1, LAMBDA x2 :
       updateNodeByID(x2, obj(M, pa).id, pa)))
  ELSE IF outerRightSibling # 0
  THEN Bind(copyFromRight(M, na, outerRightSibling), LAMBDA x1 :
       Bind(IF ok(x1) THEN setObj(x1, pa, deleteAt(obj(x1, pa), keyPositionInParent, rightSiblingPosition)) ELSE x1, LAMBDA x2 :
       updateNodeByID(x2, obj(M, pa).id, pa)))
  ELSE M

rebalanceFromLeafNode(M, na) ==
  IF ~ok(M) THEN M
  ELSE
  Bind(loadNodeByID(M, obj(M, na).parentID), LAMBDA m1 :
  IF ~ok(m1) THEN m1
  ELSE LET pa == m1.a
           parent == obj(m1, pa)
           pointerPositionInParent == pointerPositionOf(parent, obj(m1, na))
           keyPositionInParent == IF pointerPositionInParent - 1 < 0 THEN 0 ELSE pointerPositionInParent - 1
           leftSiblingPosition == pointerPositionInParent - 1
           rightSiblingPosition == pointerPositionInParent + 1
       IN
  IF pointerPositionInParent = -2 THEN fail(m1, "panic")
  ELSE
  Bind(IF leftSiblingPosition >= 0 THEN loadSibling(m1, at(parent, leftSiblingPosition)) ELSE m1, LAMBDA afterLeft :
  IF ~ok(afterLeft) THEN afterLeft
  ELSE IF leftSiblingPosition >= 0 /\ obj(afterLeft, afterLeft.a).keyNum > minKeyNum
  THEN borrowFromLeftLeaf(afterLeft, na, pa, afterLeft.a, keyPositionInParent)
  ELSE
  Bind(IF rightSiblingPosition < parent.keyNum + 1
       THEN loadSibling(afterLeft, at(obj(afterLeft, pa), rightSiblingPosition))
       ELSE afterLeft, LAMBDA afterRight :
  IF ~ok(afterRight) THEN afterRight
  ELSE IF rightSiblingPosition < parent.keyNum + 1 /\ obj(afterRight, afterRight.a).keyNum > minKeyNum
  THEN borrowFromRightLeaf(afterRight, na, pa, afterRight.a, rightSiblingPosition)
  ELSE
  Bind(mergeLeaf(afterRight, na, pa, keyPositionInParent, pointerPositionInParent, rightSiblingPosition), LAMBDA g1 :
  rebalanceParentNode(g1, pa, g1.last + 1)))))

(* The leftmost key of the subtree of nodeID, left in register key. *)
RECURSIVE leftmostOf(_, _, _)
leftmostOf(M, a, fuel) ==
  IF ~ok(M) THEN M
  ELSE LET current == obj(M, a) IN
    IF current.leaf THEN [M EXCEPT !.key = current.keys[0]]
    ELSE IF fuel = 0 THEN fail(M, "hang")
    ELSE Bind(asNodeID(M, at(current, 0)), LAMBDA m1 :
         Bind(loadNodeByID(m1, m1.k), LAMBDA m2 :
         leftmostOf(m2, m2.a, fuel - 1)))

findLeftmostKey(M, nodeID) ==
  Bind(loadNodeByID(M, nodeID), LAMBDA m1 : leftmostOf(m1, m1.a, M.last + 1))

(* The scan of the keys of one internal node; the position reached is left in register k. *)
(* A key equal to the deleted key is replaced and compared again at the same position:    *)
(* when the replacement equals the deleted key the loop never ends.                       *)
RECURSIVE scanIndex(_, _, _, _)
scanIndex(M, ca, key, position) ==
  IF ~ok(M) THEN M
  ELSE LET current == obj(M, ca) IN
    IF position >= current.keyNum THEN [M EXCEPT !.k = position]
    ELSE LET cmp == compare(key, current.keys[position]) IN
      IF cmp < 0 THEN [M EXCEPT !.k = position]
      ELSE IF cmp > 0 THEN scanIndex(M, ca, key, position + 1)
      ELSE
      Bind(asNodeID(M, at(current, position + 1)), LAMBDA m1 :
      Bind(findLeftmostKey(m1, m1.k), LAMBDA m2 :
      Bind(IF ok(m2) THEN setObj(m2, ca, [obj(m2, ca) EXCEPT !.keys[position] = m2.key]) ELSE m2, LAMBDA m3 :
      Bind(updateNodeByID(m3, current.id, ca), LAMBDA m4 :
      IF ok(m4) /\ compare(key, m2.key) = 0 THEN fail(m4, "hang")
      ELSE scanIndex(m4, ca, key, position)))))

RECURSIVE indexWalk(_, _, _, _)
indexWalk(M, ca, key, fuel) ==
  IF ~ok(M) THEN M
  ELSE IF obj(M, ca).leaf THEN M
  ELSE IF fuel = 0 THEN fail(M, "hang")
  ELSE
  Bind(scanIndex(M, ca, key, 0), LAMBDA m1 :
  IF ~ok(m1) THEN m1
  ELSE
  Bind(asNodeID(m1, at(obj(m1, ca), m1.k)), LAMBDA m2 :
  Bind(loadNodeByID(m2, m2.k), LAMBDA m3 :
  indexWalk(m3, m3.a, key, fuel - 1))))

removeFromIndex(M, key) ==
  IF ~ok(M) THEN M
  ELSE Bind(loadNodeByID(M, M.meta.rootID), LAMBDA m1 : indexWalk(m1, m1.a, key, M.last + 1))

deleteAtLeafAndRebalance(M, na, key) ==
  IF ~ok(M) THEN M
  ELSE LET n == obj(M, na)
           keyPos == keyPosition(n, key)
       IN IF keyPos = -1 THEN ret(M, NilVal, FALSE)
          ELSE IF ~isValue(at(n, keyPos)) THEN fail(M, "panic")
          ELSE LET value == n.pointers[keyPos].v IN
          Bind(setObj(M, na, deleteAt(n, keyPos, keyPos)), LAMBDA m1 :
          LET n1 == obj(m1, na) IN
          IF n1.parentID = 0
          THEN IF n1.keyNum = 0
               THEN Bind(deleteNodeByID(m1, n1.id), LAMBDA m2 :
                    Bind(deleteMetadata(m2), LAMBDA m3 : ret(m3, value, TRUE)))
               ELSE Bind(updateNodeByID(m1, n1.id, na), LAMBDA m2 : ret(m2, value, TRUE))
          ELSE Bind(IF n1.keyNum < minKeyNum THEN rebalanceFromLeafNode(m1, na) ELSE m1, LAMBDA m2 :
               Bind(removeFromIndex(m2, key), LAMBDA m3 : ret(m3, value, TRUE))))

Delete(M, key) ==
  IF M.meta = NoMeta THEN ret(M, NilVal, FALSE)
  ELSE Bind(findLeaf(M, key), LAMBDA m1 : deleteAtLeafAndRebalance(m1, m1.a, key))

(***************************************************************************)
(* Iterator, ForEach, Size                                                 *)
(***************************************************************************)
HasNext(M, na, i) == na # 0 /\ i < obj(M, na).keyNum

(* Iterator() followed by Next() for as long as HasNext(): na is it.next (0: nil), i is it.i, *)
(* acc the pairs returned so far, left in register seq at the end.                            *)
RECURSIVE walk(_, _, _, _, _)
walk(M, na, i, acc, fuel) ==
  IF ~ok(M) THEN [M EXCEPT !.seq = acc]
  ELSE IF ~HasNext(M, na, i) THEN [M EXCEPT !.seq = acc]
  ELSE IF fuel = 0 THEN fail([M EXCEPT !.seq = acc], "hang")
  ELSE LET n == obj(M, na) IN
    IF ~isValue(at(n, i)) THEN fail([M EXCEPT !.seq = acc], "panic")
    ELSE Bind(Append(acc, <<n.keys[i], n.pointers[i].v>>), LAMBDA acc1 :
      IF i + 1 = n.keyNum
      THEN IF next(n) # NilP
           THEN Bind(asNodeID(M, next(n)), LAMBDA m1 :
                Bind(loadNodeByID(m1, m1.k), LAMBDA m2 :
                IF ~ok(m2) THEN [m2 EXCEPT !.seq = acc] ELSE walk(m2, m2.a, 0, acc1, fuel - 1)))
           ELSE walk(M, 0, 0, acc1, fuel - 1)
      ELSE walk(M, na, i + 1, acc1, fuel - 1))

Iterate(M) ==
  IF M.meta = NoMeta THEN walk(M, 0, 0, <<>>, 0)
  ELSE Bind(loadNodeByID(M, M.meta.leftmostID), LAMBDA m1 :
       walk(m1, m1.a, 0, <<>>, (M.last + 1) * order))

(* ForEach has no body: the action is never called. *)
ForEach(M) == [M EXCEPT !.seq = <<>>]

(* Size returns the constant 0. *)
Size(M) == [M EXCEPT !.rv = 0]

(***************************************************************************)
(* Open: the options, the pager and the check of the recorded order.  F is *)
(* the file as fileOf describes it.                                        *)
(***************************************************************************)
Order(o) == IF o < minOrder THEN "err" ELSE IF o > maxOrder THEN "err" ELSE "ok"

PageSize(ps) == IF ps < minPageSize THEN "err" ELSE IF ps > maxPageSize THEN "err" ELSE "ok"

(* A file of size 0 is initialised with the given page size and the free-page list. *)
newPager(F, ps) ==
  IF ps < minPageSize THEN [st |-> "err", file |-> F]
  ELSE IF F.lastPageId = 0
  THEN [st |-> "ok",
        file |-> [disk |-> [i \in 1..firstFreePageId |-> ListPage], free |-> {},
                  lastPageId |-> firstFreePageId, dmeta |-> <<>>, pageSize |-> ps]]
  ELSE IF F.pageSize # ps THEN [st |-> "err", file |-> F]
  ELSE [st |-> "ok", file |-> F]

OpenNoOrderCheck(F, o, ps) ==
  IF Order(o) = "err" \/ PageSize(ps) = "err" THEN [st |-> "err", file |-> F, order |-> 0, meta |-> NoMeta]
  ELSE Bind(newPager(F, ps), LAMBDA p :
       IF p.st = "err" THEN [st |-> "err", file |-> p.file, order |-> 0, meta |-> NoMeta]
       ELSE [st |-> "ok", file |-> p.file, order |-> o, meta |-> loadMetadata(p.file.dmeta)])

OpenStorageFirst(F, o, ps) ==
  Bind(newPager(F, ps), LAMBDA p :
  IF p.st = "err" \/ Order(o) = "err" \/ PageSize(ps) = "err"
  THEN [st |-> "err", file |-> p.file, order |-> 0, meta |-> NoMeta]
  ELSE LET metadata == loadMetadata(p.file.dmeta) IN
       IF metadata # NoMeta /\ metadata.order # o
       THEN [st |-> "err", file |-> p.file, order |-> 0, meta |-> NoMeta]
       ELSE [st |-> "ok", file |-> p.file, order |-> o, meta |-> metadata])

Open(F, o, ps) ==
  IF Order(o) = "err" \/ PageSize(ps) = "err" THEN [st |-> "err", file |-> F, order |-> 0, meta |-> NoMeta]
  ELSE Bind(newPager(F, ps), LAMBDA p :
       IF p.st = "err" THEN [st |-> "err", file |-> p.file, order |-> 0, meta |-> NoMeta]
       ELSE LET metadata == loadMetadata(p.file.dmeta) IN
            IF metadata # NoMeta /\ metadata.order # o
            THEN [st |-> "err", file |-> p.file, order |-> 0, meta |-> NoMeta]
            ELSE [st |-> "ok", file |-> p.file, order |-> o, meta |-> metadata])

(***************************************************************************)
(* The state machine: one process that has opened the file, the operations *)
(* of the open handle, Close, and a later Open of the same file, by the    *)
(* same process (the node cache is still there) or by a new one.           *)
(***************************************************************************)
machineWith(c, m) ==
  [heap |-> [i \in 1..lastPageId |-> c[i]],
   cmap |-> [i \in 1..lastPageId |-> IF c[i] = NoNode THEN 0 ELSE i],
   disk |-> disk, free |-> free, last |-> lastPageId, dmeta |-> dmeta, meta |-> m,
   st |-> "ok", rv |-> NilVal, rf |-> FALSE, a |-> 0, b |-> 0, k |-> 0, key |-> NilKey, seq |-> <<>>]

machine == machineWith(cache, meta)

(* The contents a handle finds when it is opened: the value Get returns for each key. *)
contentsAtOpen(c, m) ==
  Bind(machineWith(c, m), LAMBDA M :
    [k \in Keys |-> Bind(Get(M, k), LAMBDA r : IF r.st = "ok" /\ r.rf THEN r.rv ELSE NilVal)])

cacheOf(M) == [i \in 1..M.last |-> IF M.cmap[i] = 0 THEN NoNode ELSE M.heap[M.cmap[i]]]

(* What Get(k) returns in the current state: Get changes nothing. *)
GetResult(k) == Bind(machine, LAMBDA M : Bind(Get(M, k), LAMBDA m : <<m.st, m.rv, m.rf>>))
GetAll == Bind(machine, LAMBDA M : [k \in Keys |-> Bind(Get(M, k), LAMBDA m : <<m.st, m.rv, m.rf>>)])

IterResult == Bind(machine, LAMBDA M : Bind(Iterate(M), LAMBDA m : <<m.st, m.seq>>))

(* The live pairs in ascending key order, according to the calls made so far. *)
RECURSIVE sortedPairs(_, _)
sortedPairs(f, k) ==
  IF k > MaxKey THEN <<>>
  ELSE IF f[k] # NilVal THEN <<(<<k, f[k]>>)>> \o sortedPairs(f, k + 1)
  ELSE sortedPairs(f, k + 1)

liveCount(f) == Cardinality({k \in Keys : f[k] # NilVal})

NoGets == [k \in Keys |-> <<"ok", NilVal, FALSE>>]

storeOf(M) == <<cacheOf(M), M.disk, M.free, M.last, M.dmeta, M.meta>>

(* The file as the pager leaves it: its pages, the free set, the last page id, the tree  *)
(* metadata and the recorded page size.  A file that does not exist has no page.         *)
fileOf == [disk |-> disk, free |-> free, lastPageId |-> lastPageId, dmeta |-> dmeta, pageSize |-> pageSize]
NoFile == [disk |-> <<>>, free |-> {}, lastPageId |-> 0, dmeta |-> <<>>, pageSize |-> 0]

(***************************************************************************)
(* The stored tree: the nodes a handle reaches from the root named by the  *)
(* metadata, each as loadNodeByID returns it (the cached node when there   *)
(* is one, what decodeNode makes of the record otherwise).                 *)
(***************************************************************************)
stored(id) ==
  IF id \in DOMAIN cache /\ cache[id] # NoNode THEN cache[id]
  ELSE IF id \in 1..lastPageId /\ id \notin free /\ disk[id].kind = "node" /\ decodable(disk[id].e)
  THEN decodeNode(disk[id].e)
  ELSE NoNode

(* The pointer positions findLeaf can take in an internal node. *)
childPositions(n) == IF n.leaf THEN {} ELSE {i \in 0..n.keyNum : isNodeID(at(n, i))}
children(n) == {at(n, i).v : i \in childPositions(n)}

(* The places of the index (node id, key position) that hold the key. *)
indexPlaces(ids, key) ==
  {p \in ids \X (0..(MaxOrd - 2)) : ~stored(p[1]).leaf /\ p[2] < stored(p[1]).keyNum /\ stored(p[1]).keys[p[2]] = key}

RECURSIVE reach(_, _)
reach(ids, fuel) ==
  LET more == ids \cup UNION {children(stored(i)) : i \in ids}
  IN IF fuel = 0 \/ more = ids THEN ids ELSE reach(more, fuel - 1)

treeIDs == IF meta = NoMeta THEN {} ELSE reach({meta.rootID}, lastPageId)

(* Delete(key) finds the key in a leaf that is not the root and holds no more than the   *)
(* minimum number of keys, and no sibling of the leaf holds more than the minimum: the   *)
(* leaf has to be merged with a sibling.                                                 *)
mergeDue(M, key) ==
  /\ M.meta # NoMeta
  /\ \E m1 \in {findLeaf(M, key)} :
       /\ ok(m1)
       /\ \E n \in {obj(m1, m1.a)} :
            /\ keyPosition(n, key) # -1
            /\ n.parentID # 0
            /\ n.keyNum - 1 < minKeyNum
            /\ \E m2 \in {loadNodeByID(m1, n.parentID)} :
                 /\ ok(m2)
                 /\ \E parent \in {obj(m2, m2.a)} : \E pos \in {pointerPositionOf(parent, n)} :
                      /\ pos >= 0
                      /\ parent.keyNum >= 1
                      /\ \A sp \in {pos - 1, pos + 1} \cap 0..parent.keyNum :
                           \E m3 \in {loadSibling(m2, at(parent, sp))} :
                             ok(m3) /\ obj(m3, m3.a).keyNum <= minKeyNum

(* Put(key, value) finds a full leaf that does not hold the key: the id of the leaf, the *)
(* insert position and the keys of the leaf.                                             *)
NoSplit == <<0, 0, <<>>>>

splitDue(M, key) ==
  IF M.meta = NoMeta THEN NoSplit
  ELSE
  Bind(findLeaf(M, key), LAMBDA m1 :
  IF ~ok(m1) THEN NoSplit
  ELSE LET n == obj(m1, m1.a)
           Le(x) == compare(key, x) <= 0
           insertPos == firstPos(n, Le)
       IN IF insertPos < n.keyNum /\ compare(key, n.keys[insertPos]) = 0 THEN NoSplit
          ELSE IF n.keyNum < lenKeys(n) THEN NoSplit
          ELSE <<n.id, insertPos, n.keys>>)

(* Delete(key) finds the key in a leaf that is not the root and holds no more than the   *)
(* minimum number of keys, and a sibling that holds more: the side of the sibling the     *)
(* code asks first, then the ids of the leaf, the sibling and the parent.                 *)
NoBorrow == <<"none", 0, 0, 0>>

borrowDue(M, key) ==
  IF M.meta = NoMeta THEN NoBorrow
  ELSE
  Bind(findLeaf(M, key), LAMBDA m1 :
  IF ~ok(m1) THEN NoBorrow
  ELSE Bind(obj(m1, m1.a), LAMBDA n :
  IF keyPosition(n, key) = -1 \/ n.parentID = 0 \/ n.keyNum - 1 >= minKeyNum THEN NoBorrow
  ELSE
  Bind(loadNodeByID(m1, n.parentID), LAMBDA m2 :
  IF ~ok(m2) THEN NoBorrow
  ELSE Bind(obj(m2, m2.a), LAMBDA parent : Bind(pointerPositionOf(parent, n), LAMBDA pos :
  IF pos < 0 THEN NoBorrow
  ELSE
  Bind(IF pos - 1 >= 0 THEN loadSibling(m2, at(parent, pos - 1)) ELSE fail(m2, "err"), LAMBDA l :
  IF ok(l) /\ obj(l, l.a).keyNum > minKeyNum THEN <<"left", n.id, obj(l, l.a).id, parent.id>>
  ELSE
  Bind(IF pos + 1 < parent.keyNum + 1 THEN loadSibling(m2, at(parent, pos + 1)) ELSE fail(m2, "err"), LAMBDA r :
  IF ok(r) /\ obj(r, r.a).keyNum > minKeyNum THEN <<"right", n.id, obj(r, r.a).id, parent.id>>
  ELSE NoBorrow)))))))

(* The record of the last call: its arguments and results, what the caller expected of  *)
(* the key (had), what Get returned for every key before the call (before), whether the *)
(* call left the cache, the file and the metadata as they were (same), the order and    *)
(* page size given to Open (cfg), the file as Open found it (file), the lengths of the  *)
(* key and the value given to Put (size), and whether the Put found the leaf and its    *)
(* parent both full (full), whether the Delete found a leaf that has to be merged (merge) *)
(* and the ids of the nodes of the stored tree before the Delete (tree), and the borrow   *)
(* the Delete has to make (borrow).                                                      *)
record(op, k, v, M) ==
  [op |-> op, key |-> k, val |-> v, st |-> M.st, rv |-> M.rv, rf |-> M.rf, seq |-> M.seq,
   had |-> IF k \in Keys THEN model[k] ELSE NilVal,
   before |-> IF op \in {"put", "get", "delete", "close"} THEN GetAll ELSE NoGets,
   same |-> storeOf(M) = <<cache, disk, free, lastPageId, dmeta, meta>>,
   cfg |-> <<order, pageSize>>,
   size |-> <<1, 1>>,
   file |-> NoFile,
   full |-> FALSE,
   merge |-> FALSE,
   tree |-> {},
   borrow |-> NoBorrow,
   index |-> {},
   split |-> NoSplit]

commit(M) ==
  /\ cache' = cacheOf(M)
  /\ disk' = M.disk
  /\ free' = M.free
  /\ lastPageId' = M.last
  /\ dmeta' = M.dmeta
  /\ meta' = M.meta
  /\ pageSize' = pageSize
  /\ status' = IF M.st \in {"panic", "hang"} THEN M.st ELSE "open"

Init ==
  /\ order \in Orders
  /\ lastPageId = firstFreePageId
  /\ disk = [i \in 1..firstFreePageId |-> ListPage]
  /\ cache = [i \in 1..firstFreePageId |-> NoNode]
  /\ free = {}
  /\ dmeta = <<>>
  /\ meta = NoMeta
  /\ status = "open"
  /\ model = [k \in Keys |-> NilVal]
  /\ calls = 0
  /\ pageSize = defaultPageSize
  /\ \E M0 \in {machine} : last = record("open", NilKey, NilVal, M0)

DoPut(k, v) ==
  /\ status = "open"
  /\ calls < MaxCalls
  /\ calls' = calls + 1
  /\ \E M0 \in {machine} : \E M \in {Put(M0, k, v)} :
       /\ commit(M)
       /\ last' = [record("put", k, v, M) EXCEPT !.split = splitDue(M0, k)]
       /\ model' = IF M.st = "ok" /\ k \in Keys THEN [model EXCEPT ![k] = v] ELSE model
  /\ UNCHANGED order

DoPutBytes(k, keySize, v, valueSize) ==
  /\ status = "open"
  /\ calls < MaxCalls
  /\ calls' = calls + 1
  /\ \E M0 \in {machine} : \E M \in {PutBytes(M0, k, keySize, v, valueSize)} :
       /\ commit(M)
       /\ last' = [record("put", k, v, M) EXCEPT !.size = <<keySize, valueSize>>]
       /\ model' = IF M.st = "ok" THEN [model EXCEPT ![k] = v] ELSE model
  /\ UNCHANGED order

DoGet(k) ==
  /\ status = "open"
  /\ \E M0 \in {machine} : \E M \in {Get(M0, k)} :
       /\ commit(M)
       /\ last' = record("get", k, NilVal, M)
  /\ UNCHANGED <<order, model, calls>>

DoDelete(k) ==
  /\ status = "open"
  /\ calls < MaxCalls
  /\ calls' = calls + 1
  /\ \E M0 \in {machine} : \E M \in {Delete(M0, k)} :
       /\ commit(M)
       /\ last' = [record("delete", k, NilVal, M) EXCEPT !.merge = mergeDue(M0, k), !.tree = treeIDs,
                                                           !.borrow = borrowDue(M0, k),
                                                           !.index = indexPlaces(treeIDs, k)]
       /\ model' = IF M.st = "ok" /\ k \in Keys THEN [model EXCEPT ![k] = NilVal] ELSE model
  /\ UNCHANGED order

DoIterate ==
  /\ status = "open"
  /\ \E M0 \in {machine} : \E M \in {Iterate(M0)} :
       /\ commit(M)
       /\ last' = record("iterate", NilKey, NilVal, M)
  /\ UNCHANGED <<order, model, calls>>

DoForEach ==
  /\ status = "open"
  /\ \E M0 \in {machine} : \E M \in {ForEach(M0)} :
       /\ commit(M)
       /\ last' = record("foreach", NilKey, NilVal, M)
  /\ UNCHANGED <<order, model, calls>>

DoSize ==
  /\ status = "open"
  /\ \E M0 \in {machine} : \E M \in {Size(M0)} :
       /\ commit(M)
       /\ last' = record("size", NilKey, NilVal, M)
  /\ UNCHANGED <<order, model, calls>>

(* Close flushes and closes the file. *)
Close ==
  /\ status = "open"
  /\ status' = "closed"
  /\ \E M0 \in {machine} : last' = record("close", NilKey, NilVal, M0)
  /\ UNCHANGED <<order, cache, disk, free, lastPageId, dmeta, meta, model, calls, pageSize>>

(* Open of the closed file, with the same order and page size, by a new process: the cache *)
(* variable of the package starts empty and everything else is read from the file.         *)
ReopenNewProcess ==
  /\ status = "closed"
  /\ status' = "open"
  /\ cache' = [i \in 1..lastPageId |-> NoNode]
  /\ meta' = loadMetadata(dmeta)
  /\ model' = contentsAtOpen([i \in 1..lastPageId |-> NoNode], loadMetadata(dmeta))
  /\ last' = [last EXCEPT !.op = "reopen"]
  /\ UNCHANGED <<order, disk, free, lastPageId, dmeta, calls, pageSize>>

(* Open of the closed file by the process that closed it: the cache still holds its nodes. *)
ReopenSameProcess ==
  /\ status = "closed"
  /\ status' = "open"
  /\ meta' = loadMetadata(dmeta)
  /\ model' = contentsAtOpen(cache, loadMetadata(dmeta))
  /\ last' = [last EXCEPT !.op = "reopen"]
  /\ UNCHANGED <<order, cache, disk, free, lastPageId, dmeta, calls, pageSize>>

(* Open(path, Order(o), PageSize(ps)) of a file that is not open, by a new process      *)
(* (fresh) or by the process that closed it.  A failed Open returns no handle.          *)
OpenFile(o, ps, fresh) ==
  /\ status = "closed"
  /\ \E R \in {Open(fileOf, o, ps)} :
       /\ disk' = R.file.disk
       /\ free' = R.file.free
       /\ lastPageId' = R.file.lastPageId
       /\ dmeta' = R.file.dmeta
       /\ pageSize' = R.file.pageSize
       /\ \E M0 \in {machine} :
            last' = [record("open", NilKey, NilVal, M0) EXCEPT !.st = R.st, !.cfg = <<o, ps>>, !.file = fileOf]
       /\ IF R.st = "ok"
          THEN /\ status' = "open"
               /\ order' = R.order
               /\ meta' = R.meta
               /\ \E c \in {[i \in 1..R.file.lastPageId |->
                               IF fresh \/ i \notin DOMAIN cache THEN NoNode ELSE cache[i]]} :
                    /\ cache' = c
                    /\ model' = IF R.meta = NoMeta THEN [k \in Keys |-> NilVal] ELSE contentsAtOpen(c, R.meta)
          ELSE UNCHANGED <<status, order, meta, cache, model>>
  /\ UNCHANGED calls

(* The calls on the handle, and Close and Open by one process. *)
NextLocal ==
  \/ \E k \in Keys, v \in Vals : DoPut(k, v)
  \/ \E k \in Keys : DoGet(k)
  \/ \E k \in Keys : DoDelete(k)
  \/ DoIterate
  \/ DoForEach
  \/ DoSize
  \/ Close
  \/ ReopenSameProcess

Next ==
  \/ NextLocal
  \/ ReopenNewProcess

(* Everything, a restart of the process included. *)
Spec == Init /\ [][Next]_vars

(* One process from the creation of the file on. *)
SpecLocal == Init /\ [][NextLocal]_vars

(* Before the first Open there is no file and no handle. *)
InitNoFile ==
  /\ order = 0
  /\ lastPageId = 0
  /\ disk = <<>>
  /\ cache = <<>>
  /\ free = {}
  /\ dmeta = <<>>
  /\ meta = NoMeta
  /\ pageSize = 0
  /\ status = "closed"
  /\ model = [k \in Keys |-> NilVal]
  /\ calls = 0
  /\ \E M0 \in {machine} : last = record("none", NilKey, NilVal, M0)

(* What Open is given: orders and page sizes on both sides of the limits. *)
OrderInputs == {minOrder - 1, maxOrder + 1} \cup Orders
PageSizeInputs == {minPageSize - 1, defaultPageSize, 2 * defaultPageSize, maxPageSize + 1}

(* The lengths Put is given: one byte, the limit, one byte more. *)
KeySizes == {1, maxKeySize, maxKeySize + 1}
ValueSizes == {1, maxValueSize, maxValueSize + 1}

(* Open with any order and page size, a few calls on the handle, Close. *)
NextOpen ==
  \/ \E o \in OrderInputs, ps \in PageSizeInputs, fresh \in BOOLEAN : OpenFile(o, ps, fresh)
  \/ calls < MaxOpenCalls /\ \E k \in Keys, v \in Vals, ks \in KeySizes, vs \in ValueSizes : DoPutBytes(k, ks, v, vs)
  \/ calls < MaxOpenCalls /\ \E k \in Keys : DoDelete(k)
  \/ \E k \in Keys : DoGet(k)
  \/ Close

SpecOpen == InitNoFile /\ [][NextOpen]_vars

(* The calls with the nil key among the keys, Close and Open by the same or a new process. *)
AllKeys == {NilKey} \cup Keys

NextNil ==
  \/ calls < MaxNilCalls /\ \E k \in AllKeys, v \in Vals : DoPut(k, v)
  \/ calls < MaxNilCalls /\ \E k \in AllKeys : DoDelete(k)
  \/ \E k \in AllKeys : DoGet(k)
  \/ Close
  \/ ReopenSameProcess
  \/ ReopenNewProcess

SpecNil == Init /\ [][NextNil]_vars

(* Enough keys to fill an internal node of the smallest order. *)
SplitKeys == 1..MaxSplitKey

GetEach(K) == Bind(machine, LAMBDA M : [k \in K |-> Bind(Get(M, k), LAMBDA m : <<m.st, m.rv, m.rf>>)])

(* Put(key, .) finds no entry for the key, the leaf full, and the parent of the leaf full: *)
(* the separator of the leaf split has to go into a full internal node.                   *)
parentIsFull(M, key) ==
  /\ M.meta # NoMeta
  /\ \E m1 \in {findLeaf(M, key)} :
       /\ ok(m1)
       /\ \E n \in {obj(m1, m1.a)} :
            /\ keyPosition(n, key) = -1
            /\ n.keyNum = lenKeys(n)
            /\ n.parentID # 0
            /\ \E m2 \in {loadNodeByID(m1, n.parentID)} :
                 ok(m2) /\ obj(m2, m2.a).keyNum = lenKeys(obj(m2, m2.a))

DoPutSplit(k, v) ==
  /\ status = "open"
  /\ calls < MaxSplitCalls
  /\ calls' = calls + 1
  /\ \E M0 \in {machine} : \E M \in {Put(M0, k, v)} :
       /\ commit(M)
       /\ last' = [record("put", k, v, M) EXCEPT !.before = GetEach(SplitKeys), !.full = parentIsFull(M0, k)]
       /\ model' = IF M.st = "ok" /\ k \in Keys THEN [model EXCEPT ![k] = v] ELSE model
  /\ UNCHANGED order

(* A call that panicked ended the process; the file is opened again by a new one. *)
RestartAfterPanic ==
  /\ status = "panic"
  /\ status' = "open"
  /\ cache' = [i \in 1..lastPageId |-> NoNode]
  /\ meta' = loadMetadata(dmeta)
  /\ model' = contentsAtOpen([i \in 1..lastPageId |-> NoNode], loadMetadata(dmeta))
  /\ last' = [last EXCEPT !.op = "restart"]
  /\ UNCHANGED <<order, disk, free, lastPageId, dmeta, calls, pageSize>>

InitSplit == Init /\ order = minOrder

NextSplit ==
  \/ \E k \in SplitKeys : DoPutSplit(k, 1)
  \/ RestartAfterPanic

SpecSplit == InitSplit /\ [][NextSplit]_vars

(* A tree of a larger order loaded with ascending keys, as the tests load theirs; a key   *)
(* that was never put is deleted; a process that panicked is replaced by a new one.       *)
InitLoad ==
  /\ order = MaxLoadOrd
  /\ lastPageId = firstFreePageId
  /\ disk = [i \in 1..firstFreePageId |-> ListPage]
  /\ cache = [i \in 1..firstFreePageId |-> NoNode]
  /\ free = {}
  /\ dmeta = <<>>
  /\ meta = NoMeta
  /\ status = "open"
  /\ model = [k \in Keys |-> NilVal]
  /\ calls = 0
  /\ pageSize = defaultPageSize
  /\ \E M0 \in {machine} : last = record("open", NilKey, NilVal, M0)

DoLoad(v) ==
  /\ status = "open"
  /\ calls < MaxLoadKey
  /\ calls' = calls + 1
  /\ \E M0 \in {machine} : \E M \in {Put(M0, calls + 1, v)} :
       /\ commit(M)
       /\ last' = [record("put", calls + 1, v, M) EXCEPT !.before = NoGets, !.full = parentIsFull(M0, calls + 1)]
       /\ model' = IF M.st = "ok" /\ calls + 1 \in Keys THEN [model EXCEPT ![calls + 1] = v] ELSE model
  /\ UNCHANGED order

DoDeleteAbsent ==
  /\ status = "open"
  /\ \E M0 \in {machine} : \E M \in {Delete(M0, MaxLoadKey + 1)} :
       /\ commit(M)
       /\ last' = [record("delete", MaxLoadKey + 1, NilVal, M) EXCEPT !.before = NoGets]
  /\ UNCHANGED <<order, model, calls>>

NextLoad ==
  \/ \E v \in Vals : DoLoad(v)
  \/ DoDeleteAbsent
  \/ RestartAfterPanic

SpecLoad == InitLoad /\ [][NextLoad]_vars

(***************************************************************************)
(* Properties of the model itself.                                         *)
(***************************************************************************)
(* pager.new takes any free page: with at most one free page the choice is determined. *)
FreeAtMostOne == Cardinality(free) <= 1

(* No call returns an error: the file operations succeed and no call reads a free page. *)
NoErrorReturned == last.st # "err"

MetadataWrittenThrough == meta = loadMetadata(dmeta)

(* The images on which loadNodeByID is modelled as panicking are of two kinds.  Either   *)
(* fewer pointers were written than the pointer count, the keys being right: decodeNode *)
(* then reads past the end of the record.  Or a nil key lies below the key count:       *)
(* encodeNode stops at it, and decodeNode takes the pointer section for keys; what it   *)
(* returns, when it returns, has no usable pointers.  An image with more keys than the  *)
(* key count has only empty keys beyond it, and decodeNode returns a node for it.       *)
MisreadImagesShape ==
  \A i \in 1..lastPageId :
    (disk[i].kind = "node" /\ ~decodable(disk[i].e)) =>
       /\ disk[i].e.keyNum <= disk[i].e.keySlots
       /\ disk[i].e.pointerNum <= disk[i].e.pointerSlots
       /\ \/ extraKeys(disk[i].e) < 0
          \/ extraKeys(disk[i].e) = 0 /\ Len(disk[i].e.pointers) < disk[i].e.pointerNum

(***************************************************************************)
(* The claims.  model is the map the calls of the open handle describe:    *)
(* the contents found at Open, then every Put and Delete that returned.    *)
(***************************************************************************)
expected(k) == <<"ok", model[k], model[k] # NilVal>>
absent == <<"ok", NilVal, FALSE>>
keysFound(g) == {k \in Keys : g[k][3]}

(* C1: on one open tree, after any sequence of successful Put and Delete calls, Get(k)   *)
(* returns (v, true) with v the value of the most recent Put(k, v) that no Delete(k)     *)
(* followed, and (nil, false) when there is no such Put.                                 *)
C1_GetReturnsLatestPut == status = "open" => \A k \in Keys : GetResult(k) = expected(k)

(* C2: after Close and an Open of the same file with the same order and page size, every *)
(* pair that was readable before the close is readable, and no other key is present.     *)
C2_ReopenKeepsContents == (status = "open" /\ last.op = "reopen") => GetAll = last.before

(* C3: Put(k, v) returns (nil, false) when k is not in the tree and (previous value,     *)
(* true) when it is; in the second case the stored value becomes v and the set of keys   *)
(* is unchanged.                                                                         *)
C3_PutReturnsPrevious ==
  (last.op = "put" /\ last.st = "ok") =>
     /\ last.had = NilVal => (last.rv = NilVal /\ ~last.rf)
     /\ last.had # NilVal => /\ last.rv = last.had
                            /\ last.rf
                            /\ GetResult(last.key) = <<"ok", last.val, TRUE>>
                            /\ keysFound(GetAll) = keysFound(last.before)

(* C4: Delete(k) of a key present with value v returns (v, true) without error; after it *)
(* Get(k) returns (nil, false) and every other key still returns its value, for every    *)
(* order.                                                                                *)
C4_DeleteRemovesOnlyKey ==
  (last.op = "delete" /\ last.had # NilVal /\ last.before[last.key] = <<"ok", last.had, TRUE>>) =>
     /\ last.st = "ok"
     /\ last.rv = last.had
     /\ last.rf
     /\ GetResult(last.key) = absent
     /\ \A k2 \in Keys \ {last.key} : GetResult(k2) = last.before[k2]

(* C5: Get(k) or Delete(k) of a key that is not in the tree returns (nil, false) with no *)
(* error and leaves the contents, the stored nodes and the metadata unchanged.           *)
C5_MissChangesNothing ==
  (last.op \in {"get", "delete"} /\ last.had = NilVal) =>
     /\ last.st = "ok"
     /\ last.rv = NilVal
     /\ ~last.rf
     /\ last.same
     /\ GetAll = last.before

(* C6: Iterator() followed by Next() while HasNext() yields every live pair exactly once *)
(* in ascending key order.                                                               *)
C6_IteratorYieldsAllAscending == status = "open" => IterResult = <<"ok", sortedPairs(model, 1)>>

(* C7: ForEach calls the action once per live pair in ascending key order, and not at    *)
(* all on an empty tree.                                                                 *)
C7_ForEachVisitsAll == status = "open" => \A M \in {machine} : ForEach(M).seq = sortedPairs(model, 1)

(* C8: Size() is the number of live pairs, also after Close and reopen.                  *)
C8_SizeCountsPairs == status = "open" => \A M \in {machine} : Size(M).rv = liveCount(model)

(* C9: the tree is Empty (no metadata) exactly when it holds no keys: deleting the last  *)
(* key of a tree of any shape frees the root and clears the metadata.                    *)
C9_EmptyIffNoKeys ==
  status = "open" =>
    /\ (\A k \in Keys : model[k] = NilVal /\ GetResult(k) = absent) => meta = NoMeta
    /\ (\E k \in Keys : model[k] # NilVal /\ GetResult(k) = expected(k)) => meta # NoMeta

(* C10: every Get, Put and Delete terminates without aborting the process.               *)
C10_CallsTerminate == status \notin {"panic", "hang"}

(* C11: Open of an existing file with in-range options returns an error and no handle   *)
(* when the page size differs from the recorded one or the order differs from the order *)
(* recorded in the tree metadata, and succeeds with the recorded values.                *)
C11_OpenChecksRecorded ==
  (last.op = "open" /\ last.file.lastPageId # 0 /\ Order(last.cfg[1]) = "ok" /\ PageSize(last.cfg[2]) = "ok") =>
     LET differs == \/ last.cfg[2] # last.file.pageSize
                    \/ last.file.dmeta # <<>> /\ decodeTreeMetadata(last.file.dmeta).order # last.cfg[1]
     IN /\ differs => (last.st = "err" /\ status = "closed")
        /\ ~differs => (last.st = "ok" /\ status = "open" /\ order = last.cfg[1])

C11_Witness ==
  /\ last.op = "open"
  /\ last.st = "err"
  /\ last.file.dmeta # <<>>
  /\ last.cfg[2] = last.file.pageSize
  /\ Order(last.cfg[1]) = "ok"

(* C12: Open with an order outside minOrder..maxOrder or a page size outside            *)
(* minPageSize..maxPageSize returns an error and leaves the file as it was: a file that  *)
(* does not exist is not created.                                                        *)
C12_OpenRejectsOutOfRange ==
  (last.op = "open" /\ (last.cfg[1] \notin minOrder..maxOrder \/ last.cfg[2] \notin minPageSize..maxPageSize)) =>
     /\ last.st = "err"
     /\ status = "closed"
     /\ fileOf = last.file

C12_Witness ==
  /\ last.op = "open"
  /\ last.cfg[1] = maxOrder + 1
  /\ last.cfg[2] = defaultPageSize
  /\ last.file = NoFile
  /\ last.st = "err"

(* C13: Put with a key or a value longer than maxKeySize, maxValueSize bytes returns an  *)
(* error and leaves the tree, the cache and the file as they were; lengths up to the     *)
(* limit are not rejected.                                                               *)
C13_PutRejectsTooLarge ==
  last.op = "put" =>
     /\ (last.size[1] > maxKeySize \/ last.size[2] > maxValueSize) =>
           (last.st = "err" /\ last.same /\ GetAll = last.before)
     /\ (last.size[1] <= maxKeySize /\ last.size[2] <= maxValueSize) => last.st # "err"

C13_Witness ==
  /\ last.op = "put"
  /\ last.size = <<maxKeySize, maxValueSize + 1>>
  /\ last.st = "err"
  /\ meta # NoMeta

returned(ops) == status = "open" /\ last.op \in ops /\ last.st = "ok"

(* C15: after any Put or Delete returns, every node of the stored tree but the root holds *)
(* between ceil(order/2)-1 and order-1 keys, and the root of a tree that is not empty     *)
(* holds between 1 and order-1 keys.                                                      *)
C15_FillInvariant ==
  returned({"put", "delete"}) =>
    \A id \in treeIDs :
      IF id = meta.rootID
      THEN stored(id).keyNum \in 1..(order - 1)
      ELSE stored(id).keyNum \in minKeyNum..(order - 1)

(* The keys a node holds, and the keys held by the nodes of the subtree of a node. *)
nodeKeys(n) == {n.keys[i] : i \in 0..(n.keyNum - 1)}

RECURSIVE subtreeKeys(_, _)
subtreeKeys(id, fuel) ==
  LET n == stored(id)
  IN IF fuel = 0 THEN nodeKeys(n)
     ELSE nodeKeys(n) \cup UNION {subtreeKeys(c, fuel - 1) : c \in children(n)}

keysBelow(n, i) == IF isNodeID(at(n, i)) THEN subtreeKeys(at(n, i).v, lastPageId) ELSE {}

(* C16: after any Put or Delete returns, the keys of every node of the stored tree are   *)
(* strictly ascending, and for every internal node and key index i the keys stored under *)
(* child i are less than keys[i] and the keys stored under child i+1 are not.            *)
C16_KeyInvariant ==
  returned({"put", "delete"}) =>
    \A id \in treeIDs : \A n \in {stored(id)} :
      /\ \A i \in 0..(n.keyNum - 2) : compare(n.keys[i], n.keys[i + 1]) < 0
      /\ ~n.leaf => \A i \in 0..(n.keyNum - 1) :
            /\ \A k \in keysBelow(n, i) : compare(k, n.keys[i]) < 0
            /\ \A k \in keysBelow(n, i + 1) : compare(k, n.keys[i]) >= 0

(* The leaves of the stored tree, and the ids met by following the next pointers from a leaf. *)
leaves == {id \in treeIDs : stored(id).leaf}

RECURSIVE chainFrom(_, _)
chainFrom(id, fuel) ==
  IF fuel = 0 THEN <<>>
  ELSE <<id>> \o (IF isNodeID(next(stored(id))) THEN chainFrom(next(stored(id)).v, fuel - 1) ELSE <<>>)

leafChain == IF meta = NoMeta THEN <<>> ELSE chainFrom(meta.leftmostID, lastPageId + 1)

(* C17: after any Put or Delete returns, and after Close and a reopen, the next pointers  *)
(* from the leaf named by leftmostID visit every leaf of the stored tree exactly once, in *)
(* ascending key order, and end at a leaf whose next pointer is nil; leftmostID names the *)
(* leaf that holds the smallest key.                                                      *)
C17_LeafChain ==
  (returned({"put", "delete", "reopen"}) /\ meta # NoMeta) =>
    \A c \in {leafChain} :
      /\ {c[i] : i \in 1..Len(c)} = leaves
      /\ Len(c) = Cardinality(leaves)
      /\ next(stored(c[Len(c)])) = NilP
      /\ \A i, j \in 1..Len(c) : i < j =>
            \A x \in nodeKeys(stored(c[i])), y \in nodeKeys(stored(c[j])) : compare(x, y) < 0
      /\ \A id \in leaves : \A y \in nodeKeys(stored(id)) :
            \E x \in nodeKeys(stored(meta.leftmostID)) : compare(x, y) <= 0

(* C18: after any Put or Delete returns, the stored root has parentID 0 and the parentID  *)
(* of every other node of the stored tree is the id of the node that points to it.        *)
C18_ParentPointers ==
  (returned({"put", "delete"}) /\ meta # NoMeta) =>
    /\ stored(meta.rootID).parentID = 0
    /\ \A id \in treeIDs : \A c \in children(stored(id)) : stored(c).parentID = id

(* C19: a Put whose separator must go into a full internal node returns without error,   *)
(* and the key it puts and every key that was found before it are found by Get after it. *)
C19_InternalSplit ==
  (last.op = "put" /\ last.full) =>
     /\ last.st = "ok"
     /\ status = "open"
     /\ \A g \in {GetEach(SplitKeys)} :
          /\ g[last.key] = <<"ok", last.val, TRUE>>
          /\ \A k \in SplitKeys : last.before[k][3] => g[k] = last.before[k]

(* C20: a Delete that leaves a leaf below the minimum while no sibling has more than the  *)
(* minimum merges the leaf with a sibling: the Delete returns, a node of the tree is      *)
(* absorbed (it is no longer in the stored tree and its record is free), and the nodes    *)
(* that remain hold at least the minimum number of keys.                                  *)
C20_MergeOnDelete ==
  (last.op = "delete" /\ last.merge) =>
     /\ last.st = "ok"
     /\ \E id \in last.tree : id \notin treeIDs /\ id \in free
     /\ \A id \in treeIDs : id # meta.rootID => stored(id).keyNum >= minKeyNum

(* The node the record of id holds, and what a node holds below its counts. *)
onDisk(id) ==
  IF id \in 1..lastPageId /\ disk[id].kind = "node" /\ decodable(disk[id].e)
  THEN decodeNode(disk[id].e)
  ELSE NoNode

contents(n) ==
  [keyNum |-> n.keyNum, leaf |-> n.leaf,
   keys |-> [i \in 0..(n.keyNum - 1) |-> IF n.keys[i] = EmptyKey THEN NilKey ELSE n.keys[i]],
   pointers |-> [i \in 0..((IF n.leaf THEN n.keyNum ELSE n.keyNum + 1) - 1) |-> at(n, i)]]

writtenThrough(id) == contents(onDisk(id)) = contents(stored(id))

(* C21: a Delete that has to borrow returns; the key is gone and every other key is found *)
(* as before, no key is in two leaves, the separator between the leaf and the lending     *)
(* sibling is the first key of the right one of the two, and the records of the leaf, the *)
(* sibling and the parent hold the new contents.                                          *)
C21_BorrowOnDelete ==
  (last.op = "delete" /\ last.borrow # NoBorrow) =>
     /\ last.st = "ok"
     /\ status = "open"
     /\ \A k \in Keys : GetResult(k) = IF k = last.key THEN absent ELSE last.before[k]
     /\ \A x, y \in leaves : x # y => nodeKeys(stored(x)) \cap nodeKeys(stored(y)) = {}
     /\ \A right \in {IF last.borrow[1] = "left" THEN last.borrow[2] ELSE last.borrow[3]} :
          \A parent \in {stored(last.borrow[4])} :
            \E i \in 0..(parent.keyNum - 1) :
              at(parent, i + 1) = IdP(right) /\ compare(parent.keys[i], stored(right).keys[0]) = 0
     /\ \A i \in 2..4 : writtenThrough(last.borrow[i])

(* C22: after a Delete that removed a key, no internal node of the stored tree holds the  *)
(* key, and every place of the index that held it holds the smallest key of the subtree   *)
(* to its right, a key that Get finds.                                                    *)
C22_IndexFixUp ==
  (last.op = "delete" /\ last.st = "ok" /\ last.rf /\ status = "open") =>
     /\ indexPlaces(treeIDs, last.key) = {}
     /\ \A p \in last.index : p[1] \in treeIDs =>
          \A n \in {stored(p[1])} :
            /\ n.keys[p[2]] \in keysBelow(n, p[2] + 1)
            /\ \A k \in keysBelow(n, p[2] + 1) : compare(n.keys[p[2]], k) <= 0
            /\ n.keys[p[2]] \in Keys
            /\ GetResult(n.keys[p[2]])[3]

(* The split of a full leaf at mid: the leaf keeps the first mid-1 of its keys when the   *)
(* insert position is below mid and the first mid otherwise, its new right neighbour      *)
(* holds the rest, and the key put is on the side its position falls in.                  *)
splitAt(mid) ==
  (last.op = "put" /\ last.split # NoSplit) =>
     /\ last.st = "ok"
     /\ \A insertPos \in {last.split[2]} : \A old \in {last.split[3]} :
        \A kept \in {IF insertPos < mid THEN mid - 1 ELSE mid} :
        \A left \in {stored(last.split[1])} :
          /\ isNodeID(next(left))
          /\ \A right \in {stored(next(left).v)} :
               /\ nodeKeys(left) = {old[i] : i \in 0..(kept - 1)}
                                      \cup (IF insertPos < mid THEN {last.key} ELSE {})
               /\ left.keyNum = kept + (IF insertPos < mid THEN 1 ELSE 0)
               /\ nodeKeys(right) = {old[i] : i \in kept..(order - 2)}
                                      \cup (IF insertPos < mid THEN {} ELSE {last.key})
               /\ right.keyNum = (order - 1) - kept + (IF insertPos < mid THEN 0 ELSE 1)

pageIdSize == 4
metadataSize == 1000
unitSize == 8

Units(ps) == ps \div unitSize
zeroUnits(ps) == [i \in 1..Units(ps) |-> 0]
RawPage(u) == IF \A i \in DOMAIN u : u[i] = 0 THEN ZeroPage ELSE [kind |-> "raw", e |-> u]

(* The units of a record page; reading the image of a free-page list as a record page    *)
(* gives bytes that the model does not follow.                                           *)
unitsOfPage(pg, ps) ==
  IF pg.kind = "raw" THEN pg.e ELSE IF pg.kind = "zero" THEN zeroUnits(ps) ELSE <<>>

NoFreePage == [ids |-> {}, nextPageId |-> 0]

(* An encoding that leaves the link to the next list page out. *)
encodeFreePageUnlinked(fp) ==
  IF fp.ids = {} THEN ZeroPage ELSE [kind |-> "list", e |-> <<fp.ids, 0>>]

encodeFreePage(fp) ==
  IF fp.ids = {} /\ fp.nextPageId = 0 THEN ZeroPage ELSE [kind |-> "list", e |-> <<fp.ids, fp.nextPageId>>]

decodableFreePage(pg) == pg.kind \in {"zero", "list"}

decodeFreePage(pg) ==
  IF pg.kind = "list" THEN [ids |-> pg.e[1], nextPageId |-> pg.e[2]] ELSE NoFreePage

(* The place of a page in the file.  The offset is computed in 32 bits: for page id 0   *)
(* (pageId-1)*pageSize wraps to 2^32 - pageSize and the offset to metadataSize-pageSize, *)
(* inside the metadata block, for every page size up to metadataSize.                    *)
inMetadata(pageId, ps) == pageId = 0 /\ ps <= metadataSize

writePage(P, pageId, data) ==
  IF ~ok(P) THEN P
  ELSE IF P.io = 0 THEN [P EXCEPT !.st = "err", !.io = -1]
  ELSE
  Bind([P EXCEPT !.io = IF @ > 0 THEN @ - 1 ELSE @], LAMBDA p1 :
  IF inMetadata(pageId, P.pageSize) THEN [p1 EXCEPT !.mtail = data]
  ELSE [p1 EXCEPT !.file = [i \in 1..(IF pageId > Len(P.file) THEN pageId ELSE Len(P.file)) |->
                               IF i = pageId THEN data
                               ELSE IF i <= Len(P.file) THEN P.file[i] ELSE ZeroPage]])

readPage(P, pageId) ==
  IF ~ok(P) THEN P
  ELSE IF inMetadata(pageId, P.pageSize) THEN [P EXCEPT !.data = P.mtail]
  ELSE IF pageId \in 1..Len(P.file) THEN [P EXCEPT !.data = P.file[pageId]]
  ELSE fail(P, "err")

without(f, x) == [i \in DOMAIN f \ {x} |-> f[i]]
with(f, x, y) == [i \in DOMAIN f \cup {x} |-> IF i = x THEN y ELSE f[i]]

isFree(P, pageId) == pageId \in DOMAIN P.isFreePage

(* The free page the iteration meets first. *)
firstFree(P) ==
  IF \E i \in 1..Len(P.pri) : P.pri[i] \in DOMAIN P.isFreePage
  THEN P.pri[CHOOSE i \in 1..Len(P.pri) :
                 /\ P.pri[i] \in DOMAIN P.isFreePage
                 /\ \A j \in 1..(i - 1) : P.pri[j] \notin DOMAIN P.isFreePage]
  ELSE CHOOSE i \in DOMAIN P.isFreePage : \A j \in DOMAIN P.isFreePage : i <= j

(* new that never looks at the free pages. *)
pager_new_appending(P) ==
  IF ~ok(P) THEN P
  ELSE IF P.io = 0 THEN [P EXCEPT !.st = "err", !.io = -1, !.rv = 0]
  ELSE [P EXCEPT !.io = IF @ > 0 THEN @ - 1 ELSE @,
                 !.file = Append(@, ZeroPage),
                 !.lastPageId = @ + 1,
                 !.rv = P.lastPageId + 1]

(* isFreePage maps a free id to its list page: c > 0 is the page freePages[c], c < 0 *)
(* the page gone[-c] that compact removed from freePages.                            *)
pager_new(P) ==
  IF ~ok(P) THEN P
  ELSE IF DOMAIN P.isFreePage # {}
  THEN LET freePageId == firstFree(P)
           c == P.isFreePage[freePageId]
       IN
       IF c < 0
       THEN Bind([P EXCEPT !.gone[-c].ids = @ \ {freePageId}], LAMBDA p1 :
            Bind(writePage(p1, p1.gone[-c].pageId, encodeFreePage(p1.gone[-c])), LAMBDA p2 :
            IF ~ok(p2) THEN [p2 EXCEPT !.gone[-c].ids = @ \cup {freePageId}, !.rv = 0]
            ELSE [p2 EXCEPT !.isFreePage = without(@, freePageId), !.rv = freePageId]))
       ELSE
       Bind([P EXCEPT !.freePages[c].ids = @ \ {freePageId}], LAMBDA p1 :
       Bind(writePage(p1, c, encodeFreePage(p1.freePages[c])), LAMBDA p2 :
       IF ~ok(p2) THEN [p2 EXCEPT !.freePages[c].ids = @ \cup {freePageId}, !.rv = 0]
       ELSE [p2 EXCEPT !.isFreePage = without(@, freePageId), !.rv = freePageId]))
  ELSE IF P.io = 0 THEN [P EXCEPT !.st = "err", !.io = -1, !.rv = 0]
  ELSE [P EXCEPT !.io = IF @ > 0 THEN @ - 1 ELSE @,
                 !.file = [i \in 1..(IF P.lastPageId + 1 > Len(P.file) THEN P.lastPageId + 1 ELSE Len(P.file)) |->
                              IF i = P.lastPageId + 1 THEN ZeroPage ELSE P.file[i]],
                 !.lastPageId = @ + 1,
                 !.rv = P.lastPageId + 1]

pager_free(P, pageId) ==
  IF ~ok(P) THEN P
  ELSE IF isFree(P, pageId) THEN fail(P, "err")
  ELSE IF P.lastFreePage = 0 THEN fail(P, "panic")
  ELSE IF Cardinality(P.freePages[P.lastFreePage].ids) * pageIdSize + pageIdSize < P.pageSize
  THEN LET c == P.lastFreePage
       IN
       Bind([P EXCEPT !.freePages[c].ids = @ \cup {pageId}], LAMBDA p1 :
       Bind(writePage(p1, c, encodeFreePage(p1.freePages[c])), LAMBDA p2 :
       IF ~ok(p2) THEN [p2 EXCEPT !.freePages[c].ids = @ \ {pageId}]
       ELSE [p2 EXCEPT !.isFreePage = with(@, pageId, c)]))
  ELSE
  Bind(pager_new(P), LAMBDA p1 :
  IF ~ok(p1) THEN p1
  ELSE LET newPageId == p1.rv
           newFreePage == [ids |-> {pageId}, nextPageId |-> 0]
           c == P.lastFreePage
       IN
       Bind(writePage(p1, newPageId, encodeFreePage(newFreePage)), LAMBDA p2 :
       IF ~ok(p2) THEN p2
       ELSE
       Bind([p2 EXCEPT !.freePages[c].nextPageId = newPageId], LAMBDA p3 :
       Bind(writePage(p3, c, encodeFreePage(p3.freePages[c])), LAMBDA p4 :
       IF ~ok(p4) THEN [p4 EXCEPT !.freePages[c].nextPageId = 0]
       ELSE [p4 EXCEPT !.prevPageIds = with(@, newPageId, c),
                       !.lastFreePage = newPageId,
                       !.isFreePage = with(@, pageId, newPageId),
                       !.freePages = with(@, newPageId, newFreePage)]))))

pager_read(P, pageId) ==
  IF ~ok(P) THEN P
  ELSE IF isFree(P, pageId) THEN fail(P, "err")
  ELSE readPage(P, pageId)

(* write without the check of the free set. *)
pager_write_unchecked(P, pageId, data, len) ==
  IF ~ok(P) THEN P
  ELSE IF len # P.pageSize THEN fail(P, "err")
  ELSE writePage(P, pageId, data)

pager_write(P, pageId, data, len) ==
  IF ~ok(P) THEN P
  ELSE IF isFree(P, pageId) THEN fail(P, "err")
  ELSE IF len # P.pageSize THEN fail(P, "err")
  ELSE writePage(P, pageId, data)

(* readFreePages: the list pages from firstFreePageId on, following the next ids. *)
RECURSIVE readFreePages(_, _, _, _, _)
readFreePages(file, freePageId, prevPageId, acc, fuel) ==
  IF freePageId = 0 \/ fuel = 0 THEN acc
  ELSE IF freePageId \notin 1..Len(file) \/ ~decodableFreePage(file[freePageId]) THEN [acc EXCEPT !.st = "err"]
  ELSE LET fp == decodeFreePage(file[freePageId])
       IN readFreePages(file, fp.nextPageId, freePageId,
            [acc EXCEPT !.isFreePage = [i \in DOMAIN @ \cup fp.ids |-> IF i \in fp.ids THEN freePageId ELSE @[i]],
                        !.freePages = with(@, freePageId, fp),
                        !.prevPageIds = IF prevPageId # 0 THEN with(@, freePageId, prevPageId) ELSE @,
                        !.lastFreePage = freePageId],
            fuel - 1)

NoMaps == [isFreePage |-> <<>>, freePages |-> <<>>, prevPageIds |-> <<>>, lastFreePage |-> 0,
           gone |-> <<>>, st |-> "ok"]

(* The state of a pager, its registers empty: rv the id returned, data the page read, u *)
(* its units, seq the record read, written and newPageId the progress of records.write. *)
pagerState(file, mtail, ps, lastPageId_, m, st) ==
  [file |-> file, mtail |-> mtail, pageSize |-> ps, lastPageId |-> lastPageId_,
   isFreePage |-> m.isFreePage, freePages |-> m.freePages, prevPageIds |-> m.prevPageIds,
   lastFreePage |-> m.lastFreePage, gone |-> m.gone, pri |-> <<>>, io |-> -1, st |-> st, rv |-> 0,
   data |-> ZeroPage, u |-> <<>>, seq |-> <<>>, written |-> 0, newPageId |-> 0]

(* newPager of a file that exists: the maps are read from the file and the last page id *)
(* is taken from its size.                                                              *)
openedPager(file, mtail, ps) ==
  Bind(readFreePages(file, firstFreePageId, 0, NoMaps, Len(file) + 1), LAMBDA m :
  pagerState(file, mtail, ps, Len(file), m, m.st))

(* newPager of an empty file: the metadata block and page 1, the first list page. *)
createdPager(ps) ==
  pagerState(<<ZeroPage>>, ZeroPage, ps, firstFreePageId,
             [NoMaps EXCEPT !.freePages = [i \in {firstFreePageId} |-> NoFreePage],
                            !.lastFreePage = firstFreePageId], "ok")

(* The list page that an entry c of isFreePage points to, with its page id. *)
pageObj(P, c) ==
  IF c < 0 THEN P.gone[-c]
  ELSE [pageId |-> c, ids |-> P.freePages[c].ids, nextPageId |-> P.freePages[c].nextPageId]

canDeleteFreePage(P, pageId) ==
  /\ pageId \in DOMAIN P.freePages
  /\ \A id \in P.freePages[pageId].ids : id \in DOMAIN P.isFreePage

(* The loop of compact from the last page down: ids the free pages met, pages the list *)
(* pages met, upd the copies of the list pages to write (updateFreePages), newLast the *)
(* new last page id.  A copy is taken of a list page that is not in freePages: panic.   *)
NoScan == [ids |-> {}, pages |-> {}, upd |-> <<>>, newLast |-> 0, st |-> "ok"]

RECURSIVE compactScan(_, _, _)
compactScan(P, pageId, acc) ==
  IF pageId <= firstFreePageId \/ acc.st # "ok" THEN acc
  ELSE IF isFree(P, pageId)
  THEN LET o == pageObj(P, P.isFreePage[pageId])
           u0 == IF o.pageId \in DOMAIN acc.upd THEN acc.upd
                 ELSE with(acc.upd, o.pageId, [ids |-> o.ids, nextPageId |-> o.nextPageId])
       IN compactScan(P, pageId - 1,
            [acc EXCEPT !.ids = @ \cup {pageId},
                        !.upd = [u0 EXCEPT ![o.pageId].ids = @ \ {pageId}],
                        !.newLast = pageId - 1])
  ELSE IF canDeleteFreePage(P, pageId)
  THEN IF pageId \in DOMAIN P.prevPageIds
       THEN LET prev == P.prevPageIds[pageId]
            IN IF prev \notin DOMAIN acc.upd /\ prev \notin DOMAIN P.freePages
               THEN [acc EXCEPT !.st = "panic"]
               ELSE LET u0 == IF prev \in DOMAIN acc.upd THEN acc.upd
                              ELSE with(acc.upd, prev, P.freePages[prev])
                    IN compactScan(P, pageId - 1,
                         [acc EXCEPT !.pages = @ \cup {pageId},
                                     !.upd = [u0 EXCEPT ![prev].nextPageId = P.freePages[pageId].nextPageId],
                                     !.newLast = pageId - 1])
       ELSE compactScan(P, pageId - 1,
              [acc EXCEPT !.pages = @ \cup {pageId}, !.newLast = pageId - 1])
  ELSE acc

(* The list pages of upd written to the file, one after the other. *)
RECURSIVE writeUpdated(_, _, _)
writeUpdated(P, upd, todo) ==
  IF todo = {} \/ ~ok(P) THEN P
  ELSE LET pageId == CHOOSE i \in todo : \A j \in todo : i <= j
       IN writeUpdated(writePage(P, pageId, encodeFreePage(upd[pageId])), upd, todo \ {pageId})

(* The last loop of compact over removeFreePages, in the order seq: lastFreePage steps  *)
(* to the page before the removed one, nil (0) when that page is in freePages no more;  *)
(* a removed page that entries of isFreePage still point to is kept in gone.            *)
RECURSIVE removePages(_, _)
removePages(P, seq) ==
  IF seq = <<>> THEN P
  ELSE LET pg == Head(seq)
           left == {id \in DOMAIN P.isFreePage : P.isFreePage[id] = pg}
           p1 == [P EXCEPT
                    !.lastFreePage =
                       IF @ # pg THEN @
                       ELSE IF pg \in DOMAIN P.prevPageIds /\ P.prevPageIds[pg] \in DOMAIN P.freePages
                            THEN P.prevPageIds[pg] ELSE 0,
                    !.prevPageIds = without(@, pg),
                    !.freePages = without(@, pg),
                    !.gone = IF left = {} THEN @
                             ELSE Append(@, [pageId |-> pg, ids |-> P.freePages[pg].ids,
                                             nextPageId |-> P.freePages[pg].nextPageId]),
                    !.isFreePage = [id \in DOMAIN @ |-> IF id \in left THEN -(Len(P.gone) + 1) ELSE @[id]]]
       IN removePages(p1, Tail(seq))

RECURSIVE inOrder(_, _)
inOrder(S, descending) ==
  IF S = {} THEN <<>>
  ELSE LET x == IF descending THEN CHOOSE i \in S : \A j \in S : j <= i
                ELSE CHOOSE i \in S : \A j \in S : i <= j
       IN <<x>> \o inOrder(S \ {x}, descending)

(* compact; descending is the order in which the iteration over removeFreePages meets *)
(* the pages.                                                                          *)
pager_compact(P, descending) ==
  IF ~ok(P) THEN P
  ELSE
  Bind(compactScan(P, P.lastPageId, [NoScan EXCEPT !.newLast = P.lastPageId]), LAMBDA sc :
  IF sc.st # "ok" THEN fail(P, sc.st)
  ELSE IF Cardinality(sc.pages) + Cardinality(sc.ids) = 0 THEN P
  ELSE LET count == Cardinality(sc.pages) + Cardinality(sc.ids)
           upd == [i \in DOMAIN sc.upd \ sc.pages |-> sc.upd[i]]
       IN
       Bind([P EXCEPT !.file = SubSeq(@, 1, Len(@) - count)], LAMBDA p1 :
       Bind(writeUpdated(p1, upd, DOMAIN upd), LAMBDA p2 :
       IF ~ok(p2) THEN p2
       ELSE IF \E i \in DOMAIN upd : i \notin DOMAIN P.freePages THEN fail(p2, "panic")
       ELSE
       Bind([p2 EXCEPT !.freePages = [i \in DOMAIN @ |-> IF i \in DOMAIN upd THEN upd[i] ELSE @[i]],
                       !.isFreePage = [i \in DOMAIN @ \ sc.ids |-> @[i]]], LAMBDA p3 :
       [removePages(p3, inOrder(sc.pages, descending)) EXCEPT !.lastPageId = sc.newLast]))))

(***************************************************************************)
(* The records: a record is a chain of pages from its head page.           *)
(***************************************************************************)
nextRecordId(u) == u[1]
recordSize(u) == u[2]
setNextRecordId(u, nextId) == [u EXCEPT ![1] = nextId]
keepNextRecordId(u) == u
clearNextRecordId(u) == [u EXCEPT ![1] = 0]

headRoom(ps) == Units(ps) - 2
pageRoomAsHead(ps) == Units(ps) - 2
pageRoom(ps) == Units(ps) - 1

min(x, y) == IF x < y THEN x ELSE y

(* pager.read of a page of a record: the units of the page in P.u. *)
readUnits(P, pageId) ==
  Bind(pager_read(P, pageId), LAMBDA p1 :
  IF ~ok(p1) THEN p1
  ELSE IF p1.data.kind = "list" THEN fail(p1, "undef")
  ELSE [p1 EXCEPT !.u = unitsOfPage(p1.data, P.pageSize)])

(* copy(pageData[from:], data[written:written+toWrite]) in units. *)
copyInto(u, from, data, written, toWrite) ==
  [i \in DOMAIN u |-> IF i >= from /\ i < from + toWrite THEN data[written + (i - from) + 1] ELSE u[i]]

records_new(P) == pager_new(P)

(* The pages that follow the first page of the record being written. *)
RECURSIVE writeNext(_, _, _, _, _, _, _)
writeNext(P, data, nextId, freeNextPage, written, newPageId, fuel) ==
  IF ~ok(P) THEN P
  ELSE IF nextId = 0 THEN [P EXCEPT !.written = written, !.newPageId = newPageId]
  ELSE IF fuel = 0 THEN fail(P, "hang")
  ELSE
  Bind(readUnits(P, nextId), LAMBDA p1 :
  IF ~ok(p1) THEN p1
  ELSE LET pageId == nextId
           next_ == nextRecordId(p1.u)
       IN
       IF freeNextPage
       THEN writeNext(pager_free(p1, pageId), data, next_, TRUE, written, newPageId, fuel - 1)
       ELSE LET toWrite == IF written < Len(data) THEN min(Len(data) - written, pageRoom(P.pageSize)) ELSE 0
                written1 == written + toWrite
                u1 == copyInto(p1.u, 2, data, written, toWrite)
                free1 == written1 >= Len(data)
                u2 == IF free1 THEN clearNextRecordId(u1) ELSE u1
                more == next_ = 0 /\ written1 < Len(data)
            IN
            Bind(IF more THEN pager_new(p1) ELSE p1, LAMBDA p2 :
            IF ~ok(p2) THEN p2
            ELSE
            Bind(pager_write(p2, pageId, RawPage(IF more THEN setNextRecordId(u2, p2.rv) ELSE u2), P.pageSize), LAMBDA p3 :
            writeNext(p3, data, next_, free1, written1, IF more THEN p2.rv ELSE newPageId, fuel - 1))))

(* The new pages at the end of the chain. *)
RECURSIVE writeRest(_, _, _, _)
writeRest(P, data, written, newPageId) ==
  IF ~ok(P) THEN P
  ELSE IF written >= Len(data) THEN P
  ELSE LET pageId == newPageId
           toWrite == min(Len(data) - written, pageRoom(P.pageSize))
           written1 == written + toWrite
           u1 == copyInto(zeroUnits(P.pageSize), 2, data, written, toWrite)
           more == written1 < Len(data)
       IN
       Bind(IF more THEN pager_new(P) ELSE P, LAMBDA p2 :
       IF ~ok(p2) THEN p2
       ELSE
       Bind(pager_write(p2, pageId, RawPage(IF more THEN setNextRecordId(u1, p2.rv) ELSE u1), P.pageSize), LAMBDA p3 :
       writeRest(p3, data, written1, IF more THEN p2.rv ELSE newPageId)))

records_write(P, recordId, data) ==
  Bind(readUnits(P, recordId), LAMBDA p1 :
  IF ~ok(p1) THEN p1
  ELSE LET nextId == nextRecordId(p1.u)
           freeNextPage == ~(Len(data) > headRoom(P.pageSize))
           writeSize == IF freeNextPage THEN Len(data) ELSE headRoom(P.pageSize)
           written == writeSize
           u1 == IF freeNextPage THEN clearNextRecordId(p1.u) ELSE p1.u
           u2 == copyInto([u1 EXCEPT ![2] = Len(data)], 3, data, 0, writeSize)
           more == nextId = 0 /\ written < Len(data)
       IN
       Bind(IF more THEN pager_new(p1) ELSE p1, LAMBDA p2 :
       IF ~ok(p2) THEN p2
       ELSE
       Bind(pager_write(p2, recordId, RawPage(IF more THEN setNextRecordId(u2, p2.rv) ELSE u2), P.pageSize), LAMBDA p3 :
       Bind(writeNext(p3, data, nextId, freeNextPage, written, IF more THEN p2.rv ELSE 0, Len(P.file) + 1), LAMBDA p4 :
       IF ~ok(p4) THEN p4
       ELSE writeRest(p4, data, p4.written, p4.newPageId)))))

freeHeadOnly(P, nextId, fuel) ==
  IF ~ok(P) \/ nextId = 0 THEN P ELSE pager_free(P, nextId)

RECURSIVE freeChain(_, _, _)
freeChain(P, nextId, fuel) ==
  IF ~ok(P) THEN P
  ELSE IF nextId = 0 THEN P
  ELSE IF fuel = 0 THEN fail(P, "hang")
  ELSE
  Bind(readUnits(P, nextId), LAMBDA p1 :
  Bind(pager_free(p1, nextId), LAMBDA p2 :
  IF ~ok(p2) THEN p2
  ELSE freeChain(p2, nextRecordId(p1.u), fuel - 1)))

records_free(P, recordId) ==
  Bind(readUnits(P, recordId), LAMBDA p1 : freeChain(p1, recordId, Len(P.file) + 1))

(* copy(recordData[from:], data[8:]): the units of a page behind the first, from from on. *)
copyOut(recordData, from, u) ==
  [i \in 1..Len(recordData) |->
     IF i > from /\ i - from <= Len(u) - 1 THEN u[i - from + 1] ELSE recordData[i]]

RECURSIVE readChain(_, _, _, _, _)
readChain(P, recordData, nextId, pageCount, fuel) ==
  IF ~ok(P) THEN P
  ELSE IF nextId = 0 THEN [P EXCEPT !.seq = recordData]
  ELSE IF fuel = 0 THEN fail(P, "hang")
  ELSE
  Bind(readUnits(P, nextId), LAMBDA p1 :
  IF ~ok(p1) THEN p1
  ELSE LET from == pageCount * pageRoom(P.pageSize) - 1
       IN IF from > Len(recordData) THEN fail(p1, "panic")
          ELSE readChain(p1, copyOut(recordData, from, p1.u), nextRecordId(p1.u), pageCount + 1, fuel - 1))

records_read(P, recordId) ==
  Bind(readUnits(P, recordId), LAMBDA p1 :
  IF ~ok(p1) THEN p1
  ELSE LET size == recordSize(p1.u)
           head == [i \in 1..size |-> IF i <= headRoom(P.pageSize) THEN p1.u[i + 2] ELSE 0]
       IN readChain(p1, head, nextRecordId(p1.u), 1, Len(P.file) + 1))

(***************************************************************************)
(* The pager and the records as state machines.                            *)
(***************************************************************************)
MaxAllocPages == 9
MaxFullPages == 10
MaxHeld == 2
MaxIOPages == 3
MaxRecLen == 6
MaxRecPages == 6
MaxRecCalls == 6

mapsOf(P) ==
  [isFreePage |-> P.isFreePage, freePages |-> P.freePages, prevPageIds |-> P.prevPageIds,
   lastFreePage |-> P.lastFreePage, gone |-> P.gone, st |-> "ok"]

pagerWith(pri) == [pagerState(disk, dmeta, pageSize, lastPageId, cache, "ok") EXCEPT !.pri = pri]

(* The orders in which the first k free pages can be met. *)
picks(S, k) ==
  IF S = {} \/ k = 0 THEN {<<>>}
  ELSE IF k = 1 \/ Cardinality(S) = 1 THEN {<<x>> : x \in S}
  ELSE {<<q[1], q[2]>> : q \in {r \in S \X S : r[1] # r[2]}}

(* The payload of Len n whose units are marked with v. *)
payload(n, v) == [i \in 1..n |-> 10 * v + i]

(* What the call did: its result, whether it left the file and the pager as they were,   *)
(* the pages whose bytes it changed, and what there was before it: the free set, the    *)
(* last page id, the number of pages of the file, the list pages and what the caller    *)
(* held.  For p.free of the page that the call before it, p.new, returned, pre is the   *)
(* set of pages in use before that p.new.                                               *)
changedPages(P) ==
  {i \in 1..(IF Len(P.file) > Len(disk) THEN Len(P.file) ELSE Len(disk)) :
     i > Len(disk) \/ i > Len(P.file) \/ P.file[i] # disk[i]}

pagerRecord(op, id, n, P) ==
  [op |-> op, id |-> id, len |-> n, st |-> P.st, rv |-> P.rv, data |-> P.data, seq |-> P.seq,
   same |-> P.file = disk /\ P.mtail = dmeta /\ P.lastPageId = lastPageId /\ mapsOf(P) = cache,
   changed |-> changedPages(P),
   free |-> free, lastPageId |-> lastPageId, size |-> Len(disk), lists |-> DOMAIN cache.freePages,
   model |-> model, pair |-> FALSE, pre |-> {}]

commitPager(P) ==
  /\ disk' = P.file
  /\ dmeta' = P.mtail
  /\ lastPageId' = P.lastPageId
  /\ free' = DOMAIN P.isFreePage
  /\ cache' = mapsOf(P)
  /\ status' = IF P.st \in {"panic", "hang", "undef"} THEN P.st ELSE "open"
  /\ UNCHANGED <<order, meta, pageSize>>

(* openPager of a new file with the smallest page size; the caller holds no page. *)
InitPager ==
  /\ order = minOrder
  /\ meta = NoMeta
  /\ pageSize = minPageSize
  /\ status = "open"
  /\ calls = 0
  /\ model = {}
  /\ \E P \in {createdPager(minPageSize)} :
       /\ disk = P.file
       /\ dmeta = P.mtail
       /\ lastPageId = P.lastPageId
       /\ free = {}
       /\ cache = mapsOf(P)
       /\ last = [pagerRecord("open", 0, 0, P) EXCEPT !.model = {}]

(* p.new() by the caller, who holds the page from then on. *)
Allocate(maxPages) ==
  /\ status = "open"
  /\ free # {} \/ lastPageId < maxPages
  /\ \E pri \in picks(free, 1) : \E P \in {pager_new(pagerWith(pri))} :
       /\ commitPager(P)
       /\ last' = pagerRecord("new", 0, 0, P)
       /\ model' = IF ok(P) THEN model \cup {P.rv} ELSE model
  /\ UNCHANGED calls

(* p.free(id) of a page among ids. *)
FreePage(ids) ==
  /\ status = "open"
  /\ \E id \in ids : \E pri \in picks(free, 1) : \E P \in {pager_free(pagerWith(pri), id)} :
       /\ commitPager(P)
       /\ last' = [pagerRecord("free", id, 0, P) EXCEPT
                     !.pair = last.op = "new" /\ last.st = "ok" /\ last.rv = id,
                     !.pre = IF last.op = "new" /\ last.st = "ok" /\ last.rv = id
                             THEN (1..last.lastPageId) \ last.free ELSE {}]
       /\ model' = IF ok(P) THEN model \ {id} ELSE model
  /\ UNCHANGED calls

ReadPage(ids) ==
  /\ status = "open"
  /\ \E id \in ids : \E P \in {pager_read(pagerWith(<<>>), id)} :
       /\ commitPager(P)
       /\ last' = pagerRecord("read", id, 0, P)
  /\ UNCHANGED <<model, calls>>

(* p.write(id, data) with len(data) = n; the bytes are all v. *)
WritePage(ids, n, v) ==
  /\ status = "open"
  /\ \E id \in ids : \E P \in {pager_write(pagerWith(<<>>), id, RawPage([i \in 1..Units(pageSize) |-> v]), n)} :
       /\ commitPager(P)
       /\ last' = [pagerRecord("write", id, n, P) EXCEPT !.data = RawPage([i \in 1..Units(pageSize) |-> v])]
  /\ UNCHANGED <<model, calls>>

ClosePager ==
  /\ status = "open"
  /\ status' = "closed"
  /\ last' = [pagerRecord("close", 0, 0, pagerWith(<<>>)) EXCEPT !.seq = last.seq]
  /\ UNCHANGED <<order, cache, disk, free, lastPageId, dmeta, meta, model, calls, pageSize>>

(* openPager of the file that was closed: the maps are read from the file; when the  *)
(* list pages cannot be read there is no pager and the file stays closed.             *)
ReopenPager ==
  /\ status = "closed"
  /\ \E P \in {openedPager(disk, dmeta, pageSize)} :
       IF ok(P)
       THEN /\ commitPager(P)
            /\ last' = [last EXCEPT !.op = "reopen", !.st = P.st, !.same = mapsOf(P) = cache]
       ELSE /\ last' = [last EXCEPT !.op = "reopen", !.st = P.st, !.same = FALSE]
            /\ UNCHANGED <<order, cache, disk, free, lastPageId, dmeta, meta, pageSize, status>>
  /\ UNCHANGED <<model, calls>>

(* Allocation and release of pages by a caller that frees what it holds. *)
NextAlloc ==
  \/ Allocate(MaxAllocPages)
  \/ FreePage(model)

SpecAlloc == InitPager /\ [][NextAlloc]_vars

(* Reads and writes of pages, of pages held, of free pages and, in the second group, of  *)
(* page 0 and of the page behind the last one.                                           *)
Outside == {0, lastPageId + 1}

NextPagerIO ==
  \/ Allocate(MaxIOPages)
  \/ FreePage(model \cup free)
  \/ ReadPage(model \cup free)
  \/ \E n \in {pageSize - 1, pageSize, pageSize + 1}, v \in 1..2 : WritePage(model \cup free, n, v)
  \/ ReadPage(Outside)
  \/ Len(disk) <= MaxIOPages /\ \E v \in 1..2 : WritePage(Outside, pageSize, v)
  \/ ClosePager
  \/ ReopenPager

SpecPagerIO == InitPager /\ [][NextPagerIO]_vars

(* A file on which the caller took the pages 2..MaxFullPages, one call after the other,  *)
(* and freed all of them but the last, in ascending order: the list page 1 is full and a *)
(* second list page follows it.                                                          *)
RECURSIVE newPages(_, _)
newPages(P, n) == IF n = 0 THEN P ELSE newPages(pager_new(P), n - 1)

RECURSIVE freePages(_, _, _)
freePages(P, from, to) == IF from > to THEN P ELSE freePages(pager_free(P, from), from + 1, to)

InitAllocFull ==
  /\ order = minOrder
  /\ meta = NoMeta
  /\ pageSize = minPageSize
  /\ status = "open"
  /\ calls = 0
  /\ model = {MaxFullPages}
  /\ \E P \in {freePages(newPages(createdPager(minPageSize), MaxFullPages - 1), 2, MaxFullPages - 1)} :
       /\ disk = P.file
       /\ dmeta = P.mtail
       /\ lastPageId = P.lastPageId
       /\ free = DOMAIN P.isFreePage
       /\ cache = mapsOf(P)
       /\ last = pagerRecord("free", MaxFullPages - 1, 0, P)

AllocateHeld ==
  /\ Cardinality(model) < MaxHeld
  /\ Allocate(MaxFullPages)

NextAllocFull ==
  \/ AllocateHeld
  \/ FreePage(model)

SpecAllocFull == InitAllocFull /\ [][NextAllocFull]_vars

(* compact() by the caller. *)
Compact ==
  /\ status = "open"
  /\ \E descending \in BOOLEAN : \E P \in {pager_compact(pagerWith(<<>>), descending)} :
       /\ commitPager(P)
       /\ last' = pagerRecord("compact", 0, 0, P)
  /\ UNCHANGED <<model, calls>>

MaxChainPages == 16
MaxCompactHeld == 2

(* The ids a list page holds at most. *)
idsPerPage(ps) == (ps - pageIdSize) \div pageIdSize

(* A file on which the caller took the pages 2..MaxChainPages and freed them all, in     *)
(* ascending order: three list pages, chained; the pages that became list pages are the *)
(* lowest free ones or lie among the free pages.                                        *)
InitChain ==
  /\ order = minOrder
  /\ meta = NoMeta
  /\ pageSize = minPageSize
  /\ status = "open"
  /\ calls = 0
  /\ model = {}
  /\ \E pri \in {<<>>, <<MaxChainPages - 1, idsPerPage(minPageSize) + 1>>} :
     \E P \in {freePages([newPages(createdPager(minPageSize), MaxChainPages - 1) EXCEPT !.pri = pri],
                         2, MaxChainPages)} :
       /\ disk = P.file
       /\ dmeta = P.mtail
       /\ lastPageId = P.lastPageId
       /\ free = DOMAIN P.isFreePage
       /\ cache = mapsOf(P)
       /\ last = pagerRecord("free", MaxChainPages, 0, P)

(* The iteration over isFreePage meets the lowest or the highest free page first. *)
ends(S) ==
  IF S = {} THEN {<<>>}
  ELSE {<<CHOOSE i \in S : \A j \in S : i <= j>>, <<CHOOSE i \in S : \A j \in S : j <= i>>}

(* p.new() by a caller that holds few pages. *)
AllocateFew ==
  /\ status = "open"
  /\ Cardinality(model) < MaxCompactHeld
  /\ free # {} \/ lastPageId < MaxChainPages
  /\ \E pri \in ends(free) : \E P \in {pager_new(pagerWith(pri))} :
       /\ commitPager(P)
       /\ last' = pagerRecord("new", 0, 0, P)
       /\ model' = IF ok(P) THEN model \cup {P.rv} ELSE model
  /\ UNCHANGED calls

NextCompact ==
  \/ AllocateFew
  \/ FreePage(model)
  \/ Compact

SpecCompact == (InitPager \/ InitChain) /\ [][NextCompact]_vars

(* What the caller knows of a record: whether it holds it, and the payload it wrote last. *)
NoRecord == [live |-> FALSE, written |-> FALSE, data |-> <<>>]
liveRecords == {id \in DOMAIN model : model[id].live}

(* openPager of a new file and newRecords on it. *)
InitRecords ==
  /\ order = minOrder
  /\ meta = NoMeta
  /\ pageSize = minPageSize
  /\ status = "open"
  /\ calls = 0
  /\ model = [id \in 1..(MaxRecPages + 2) |-> NoRecord]
  /\ \E P \in {createdPager(minPageSize)} :
       /\ disk = P.file
       /\ dmeta = P.mtail
       /\ lastPageId = P.lastPageId
       /\ free = {}
       /\ cache = mapsOf(P)
       /\ last = pagerRecord("open", 0, 0, P)

NewRecord(count) ==
  /\ status = "open"
  /\ count => calls < MaxRecCalls
  /\ free # {} \/ lastPageId < MaxRecPages
  /\ \E pri \in picks(free, 1) : \E P \in {records_new(pagerWith(pri))} :
       /\ commitPager(P)
       /\ last' = pagerRecord("new", 0, 0, P)
       /\ model' = IF ok(P) THEN [model EXCEPT ![P.rv] = [live |-> TRUE, written |-> FALSE, data |-> <<>>]] ELSE model
  /\ calls' = IF count THEN calls + 1 ELSE calls

(* r.write(id, data) of a record the caller holds; the payload has n units marked v. *)
WriteRecord(id, n, v, count) ==
  /\ status = "open"
  /\ count => calls < MaxRecCalls
  /\ id \in liveRecords
  /\ \E pri \in picks(free, 2) : \E P \in {records_write(pagerWith(pri), id, payload(n, v))} :
       /\ commitPager(P)
       /\ last' = pagerRecord("write", id, n, P)
       /\ model' = [model EXCEPT ![id] = [live |-> TRUE, written |-> ok(P), data |-> payload(n, v)]]
  /\ calls' = IF count THEN calls + 1 ELSE calls

FreeRecord(id, count) ==
  /\ status = "open"
  /\ count => calls < MaxRecCalls
  /\ id \in liveRecords
  /\ \E P \in {records_free(pagerWith(<<>>), id)} :
       /\ commitPager(P)
       /\ last' = pagerRecord("free", id, 0, P)
       /\ model' = [model EXCEPT ![id] = NoRecord]
  /\ calls' = IF count THEN calls + 1 ELSE calls

(* One record on a new file, written again and again. *)
InitRecord ==
  /\ order = minOrder
  /\ meta = NoMeta
  /\ pageSize = minPageSize
  /\ status = "open"
  /\ calls = 0
  /\ \E P \in {records_new(createdPager(minPageSize))} :
       /\ disk = P.file
       /\ dmeta = P.mtail
       /\ lastPageId = P.lastPageId
       /\ free = {}
       /\ cache = mapsOf(P)
       /\ model = [id \in 1..(MaxRecPages + 2) |-> IF id = P.rv THEN [live |-> TRUE, written |-> FALSE, data |-> <<>>] ELSE NoRecord]
       /\ last = [pagerRecord("new", 0, 0, P) EXCEPT !.same = FALSE, !.changed = {P.rv}, !.lastPageId = firstFreePageId,
                                                       !.size = 1, !.model = [id \in 1..(MaxRecPages + 2) |-> NoRecord]]

(* The lengths at which the number of pages changes, in units. *)
RecordLens ==
  {0, headRoom(minPageSize), headRoom(minPageSize) + 1, headRoom(minPageSize) + pageRoom(minPageSize), MaxRecLen}

NextRecord ==
  \/ \E id \in liveRecords, n \in RecordLens, v \in 1..2 : WriteRecord(id, n, v, FALSE)
  \/ ClosePager
  \/ ReopenPager

SpecRecord == InitRecord /\ [][NextRecord]_vars

(* Records made, written and freed by one caller. *)
RecLens == {1, 3, 6}

NextRecords ==
  \/ NewRecord(TRUE)
  \/ \E id \in liveRecords, n \in RecLens : WriteRecord(id, n, 1, TRUE)
  \/ \E id \in liveRecords : FreeRecord(id, TRUE)

SpecRecords == InitRecords /\ [][NextRecords]_vars

(* What records.read returns for a record. *)
readResult(id) == Bind(records_read(pagerWith(<<>>), id), LAMBDA R : <<R.st, R.seq>>)

(* C24: on one record written again and again with payloads of any lengths, every write  *)
(* returns and read returns the payload written last, also after the pager was closed and *)
(* opened again.                                                                          *)
C24_RecordRoundTrip ==
  /\ status \in {"open", "closed"}
  /\ (status = "open" /\ last.op \in {"write", "reopen"}) =>
     /\ last.st = "ok"
     /\ \A id \in liveRecords : model[id].written => readResult(id) = <<"ok", model[id].data>>

C24_Witness ==
  /\ status = "open"
  /\ last.op = "reopen"
  /\ \E id \in liveRecords : model[id].written /\ Len(model[id].data) = headRoom(pageSize)
  /\ Cardinality(free) = 2

(* The pages in use: the pages of the file that are not in the free set; among them the  *)
(* pages that hold the free-page list.                                                   *)
allocated == (1..lastPageId) \ free
listPages == DOMAIN cache.freePages

(* C25: the id p.new() returns is not 0, is not in the free set after the call and was   *)
(* not in use before it: it is no page the caller holds and no page of the free-page     *)
(* list; consequently two calls with no free between them return different ids.  After   *)
(* p.free of the page that p.new has just returned the set of pages in use is what it    *)
(* was before the p.new.                                                                 *)
C25_AllocatorSafety ==
  /\ (last.op = "new" /\ status = "open") =>
        /\ last.st = "ok"
        /\ last.rv # 0
        /\ last.rv \notin free
        /\ last.rv \notin last.model
        /\ last.rv \notin last.lists
        /\ last.rv \notin listPages
        /\ allocated = ((1..last.lastPageId) \ last.free) \cup {last.rv}
  /\ (last.op = "free" /\ last.pair) =>
        /\ last.st = "ok"
        /\ allocated = last.pre

(* The pages of a record in the file: the head page and the pages the next ids lead to. *)
RECURSIVE chainOf(_, _)
chainOf(id, fuel) ==
  IF id \notin 1..Len(disk) \/ disk[id].kind = "list" \/ fuel = 0 THEN {}
  ELSE {id} \cup (IF nextRecordId(unitsOfPage(disk[id], pageSize)) = 0 THEN {}
                  ELSE chainOf(nextRecordId(unitsOfPage(disk[id], pageSize)), fuel - 1))

pagesOf(id) == chainOf(id, Len(disk))

(* C26: the page chains of the records the caller holds are disjoint; a record that      *)
(* records.new has just returned has its head page only; write and free of a record      *)
(* return without error and change or free no page of another record.                    *)
C26_RecordIsolation ==
  /\ status \in {"open", "closed"}
  /\ \A a, b \in liveRecords : a # b => pagesOf(a) \cap pagesOf(b) = {}
  /\ (last.op = "new" /\ last.st = "ok") => pagesOf(last.rv) = {last.rv}
  /\ last.op \in {"write", "free"} =>
        /\ last.st = "ok"
        /\ \A b \in liveRecords \ {last.id} : pagesOf(b) \cap (last.changed \cup (free \ last.free)) = {}

(* The ids that the list pages of the file hold, read as newPager reads them. *)
onDiskFree == DOMAIN openedPager(disk, dmeta, pageSize).isFreePage

(* Allocation and release around a full list page, with the pager closed and opened again. *)
NextAllocReopen ==
  \/ AllocateHeld
  \/ FreePage(model)
  \/ ClosePager
  \/ ReopenPager

SpecAllocReopen == InitAllocFull /\ [][NextAllocReopen]_vars

(* C27: after any calls of new and free, with one list page or a chain of them, the free *)
(* set in memory is the set of ids in the list pages of the file reached from page 1,    *)
(* and the pager opened again after a close has the free set it had before the close.    *)
C27_FreeSetConsistency ==
  /\ openedPager(disk, dmeta, pageSize).st = "ok"
  /\ onDiskFree = free
  /\ last.op = "reopen" => status = "open" /\ free = last.free

C27_Witness ==
  /\ last.op = "reopen"
  /\ last.same
  /\ \E a, b \in DOMAIN cache.freePages :
       a # b /\ cache.freePages[a].ids # {} /\ cache.freePages[b].ids # {}

(* C28: new() appends one page to the file only when no page is free, and the id it      *)
(* returns is then the one after the last; when a page is free it returns a free id,     *)
(* takes it out of the free set and of the list page in the file, and the file keeps its *)
(* size, so that with p the only free page new() returns p.                              *)
C28_AllocateReuse ==
  (last.op = "new" /\ last.st = "ok") =>
    /\ last.free = {} =>
         /\ Len(disk) = last.size + 1
         /\ lastPageId = last.lastPageId + 1
         /\ last.rv = lastPageId
         /\ free = {}
    /\ last.free # {} =>
         /\ last.rv \in last.free
         /\ free = last.free \ {last.rv}
         /\ onDiskFree = free
         /\ Len(disk) = last.size
         /\ lastPageId = last.lastPageId
    /\ \A p \in last.free : last.free = {p} => last.rv = p

C28_Witness ==
  /\ last.op = "new"
  /\ last.st = "ok"
  /\ Cardinality(last.free) = 1
  /\ last.rv \in last.free
  /\ last.size >= 3
  /\ Len(disk) = last.size

(* C29: free, read and write of a page that is free return an error and leave the file,  *)
(* the free set and the maps of the pager as they were; so does a write of a number of   *)
(* bytes that is not the page size.                                                      *)
C29_FreePageRejected ==
  /\ (last.op \in {"free", "read", "write"} /\ last.id \in last.free) =>
        /\ last.st = "err"
        /\ last.same
        /\ free = last.free
  /\ (last.op = "write" /\ last.len # pageSize) =>
        /\ last.st = "err"
        /\ last.same

C29_Witness ==
  /\ last.op = "write"
  /\ last.id \in last.free
  /\ last.len = pageSize
  /\ last.st = "err"
  /\ last.same
  /\ disk[last.id] # last.data

(* C30: read and write of page 0 and of a page id greater than the last page id return   *)
(* an error and leave the file as it was: its pages, their number, the metadata block    *)
(* and the maps of the pager.                                                            *)
C30_OutsideRejected ==
  (last.op \in {"read", "write"} /\ (last.id = 0 \/ last.id > last.lastPageId)) =>
     /\ last.st = "err"
     /\ last.same
     /\ Len(disk) = last.size

(* The highest page id that is not free. *)
highestAllocated == CHOOSE i \in (1..lastPageId) \ free : \A j \in (1..lastPageId) \ free : j <= i

(* C31: after compact() the file ends with the highest page that is still allocated:    *)
(* its size is metadataSize + pageSize * that page id, no free page is left at the end,  *)
(* and when the caller holds no page the file is the metadata block and page 1.         *)
C31_CompactSize ==
  last.op = "compact" =>
    /\ last.st = "ok"
    /\ lastPageId \notin free
    /\ metadataSize + pageSize * Len(disk) = metadataSize + pageSize * highestAllocated
    /\ last.model = {} => Len(disk) = firstFreePageId

C31_Witness ==
  /\ last.op = "compact"
  /\ last.st = "ok"
  /\ last.model = {}
  /\ Cardinality(last.lists) = 3
  /\ last.size = MaxChainPages
  /\ Len(disk) = firstFreePageId

MaxIOHeld == 1

(* p.new() by a caller that holds at most MaxIOHeld pages. *)
AllocateOne ==
  /\ Cardinality(model) < MaxIOHeld
  /\ AllocateFew

(* Compaction of a file with three list pages, among writes, close and reopen. *)
NextCompactIO ==
  \/ AllocateOne
  \/ FreePage(model)
  \/ WritePage(model, pageSize, 1)
  \/ Compact
  \/ ClosePager
  \/ ReopenPager

SpecCompactIO == InitChain /\ [][NextCompactIO]_vars

(* C32: compact() changes no page that the caller holds, and the pager works on: no call *)
(* panics, new and free change no page held, a write to a page held is read back, and    *)
(* the file can be opened again with the pages held as they were.                        *)
C32_CompactFrame ==
  /\ status \notin {"panic", "hang", "undef"}
  /\ last.op = "compact" => last.st = "ok"
  /\ last.op = "reopen" => last.st = "ok"
  /\ last.op \in {"new", "free", "compact", "close", "reopen"} => last.model \cap last.changed = {}
  /\ (last.op = "write" /\ last.id \in last.model) =>
        /\ last.st = "ok"
        /\ disk[last.id] = last.data

(* The pager that newPager makes of the file as it is. *)
reopened == openedPager(disk, dmeta, pageSize)

(* C33: after compact() the free set in memory is the set of ids in the list pages of    *)
(* the file reached from page 1, which can be read; no free id and no list page lies     *)
(* behind the new last page; lastFreePage is the last list page of the chain; and every  *)
(* page that was free before and lies below the new end is still free.                   *)
C33_CompactFreeList ==
  last.op = "compact" =>
    /\ last.st = "ok"
    /\ reopened.st = "ok"
    /\ onDiskFree = free
    /\ \A id \in free : id <= lastPageId
    /\ DOMAIN reopened.freePages \subseteq 1..lastPageId
    /\ cache.lastFreePage \in DOMAIN cache.freePages
    /\ cache.lastFreePage = reopened.lastFreePage
    /\ \A id \in last.free : id <= lastPageId => id \in free

(* The record of a node holds the key count, the kind, the parent and the keys that the  *)
(* node object loadNodeByID returns has.                                                 *)
sameAsWritten(id) ==
  /\ disk[id].kind = "node"
  /\ disk[id].e.keyNum = cache[id].keyNum
  /\ disk[id].e.leaf = cache[id].leaf
  /\ disk[id].e.parentID = cache[id].parentID
  /\ \A i \in 0..(cache[id].keyNum - 1) :
       i \in DOMAIN disk[id].e.keys =>
         (IF disk[id].e.keys[i] = EmptyKey THEN NilKey ELSE disk[id].e.keys[i])
           = (IF cache[id].keys[i] = EmptyKey THEN NilKey ELSE cache[id].keys[i])

(* C34: what loadNodeByID returns for a node is the node that updateNodeByID wrote last: *)
(* no node object is shared between two loads, so a change to a loaded node that was not *)
(* written is seen by no later load, in this handle or in a handle opened later by the   *)
(* same process.                                                                         *)
C34_NoSharedNodes ==
  \A id \in 1..lastPageId :
    (id \notin free /\ id \in DOMAIN cache /\ cache[id] # NoNode) => sameAsWritten(id)

(***************************************************************************)
(* The codec on the nodes of the tree.                                     *)
(***************************************************************************)
sameNode(n, d) ==
  /\ d.id = n.id
  /\ d.parentID = n.parentID
  /\ d.leaf = n.leaf
  /\ d.keyNum = n.keyNum
  /\ DOMAIN d.keys = DOMAIN n.keys
  /\ DOMAIN d.pointers = DOMAIN n.pointers
  /\ \A i \in 0..(n.keyNum - 1) : d.keys[i] = n.keys[i]
  /\ \A i \in 0..((IF n.leaf THEN n.keyNum ELSE n.keyNum + 1) - 1) : d.pointers[i] = n.pointers[i]
  /\ n.leaf => d.pointers[lenPointers(n) - 1] = n.pointers[lenPointers(n) - 1]

roundTrip(n) == decodable(encodeNode(n)) /\ sameNode(n, decodeNode(encodeNode(n)))

(* C35: decodeNode(encodeNode(n)) equals n for every node the tree holds: id, parentID,   *)
(* leaf flag, keyNum, the slot capacities, the keys and pointers in use in order, and in  *)
(* a leaf the next-leaf pointer of the last pointer slot; the tree metadata survives      *)
(* decodeTreeMetadata(encodeTreeMetadata(m)).                                            *)
C35_CodecRoundTrip ==
  /\ \A id \in DOMAIN cache : cache[id] # NoNode => roundTrip(cache[id])
  /\ meta # NoMeta => decodeTreeMetadata(encodeTreeMetadata(meta)) = meta

(* The number of pages a payload of n units takes: the head page, then full pages. *)
pagesNeeded(n, ps) ==
  IF n <= headRoom(ps) THEN 1 ELSE 1 + ((n - headRoom(ps)) + pageRoom(ps) - 1) \div pageRoom(ps)

endsChain(id) ==
  \E p \in pagesOf(id) : p \in 1..Len(disk) /\ nextRecordId(unitsOfPage(disk[p], pageSize)) = 0

MaxFreeLen == 13

FreeLens == {1, headRoom(minPageSize) + pageRoom(minPageSize), MaxFreeLen}

NewOne == liveRecords = {} /\ NewRecord(TRUE)

NextRecordFree ==
  \/ NewOne
  \/ \E id \in liveRecords, n \in FreeLens : WriteRecord(id, n, 1, TRUE)
  \/ \E id \in liveRecords : FreeRecord(id, TRUE)
  \/ ClosePager
  \/ ReopenPager

SpecRecordFree == InitRecord /\ [][NextRecordFree]_vars

takenPages == {id \in firstFreePageId..lastPageId : id \notin free /\ disk[id].kind # "list"}

(* C38: after any Put or Delete returns, every taken page that is not a page of the       *)
(* free-page list is the record of a node of the stored tree, and once every key has been *)
(* deleted no node record is taken.                                                       *)
C38_NoPageLeak ==
  returned({"put", "delete"}) =>
    /\ takenPages \subseteq treeIDs
    /\ liveCount(model) = 0 => takenPages = {}

(* The depths at which the leaves below a node of the stored tree lie. *)
RECURSIVE leafDepths(_, _, _)
leafDepths(id, depth, fuel) ==
  IF fuel = 0 \/ stored(id) = NoNode THEN {0}
  ELSE IF stored(id).leaf THEN {depth}
  ELSE UNION {leafDepths(c, depth + 1, fuel - 1) : c \in children(stored(id))}

depths == IF meta = NoMeta THEN {} ELSE leafDepths(meta.rootID, 1, lastPageId)

height == IF depths = {} THEN 0 ELSE CHOOSE d \in depths : \A e \in depths : e <= d

(* Put and Delete on a tree of the smallest order, with enough keys for a second leaf split. *)
NextBalance ==
  \/ \E k \in SplitKeys : DoPutSplit(k, 1)
  \/ \E k \in SplitKeys : DoDelete(k)
  \/ RestartAfterPanic

SpecBalance == InitSplit /\ [][NextBalance]_vars

(* C39: after any Put or Delete returns all leaves of the stored tree are at the same     *)
(* depth; the height grows by one level at a time, only in a Put that makes a new root,   *)
(* and shrinks only in a Delete that replaces or removes the root.                        *)
C39_Balance ==
  [][ (last'.op \in {"put", "delete"} /\ last'.st = "ok" /\ status' = "open") =>
        /\ Cardinality(depths') <= 1
        /\ 0 \notin depths'
        /\ height' > height => (last'.op = "put" /\ height' = height + 1 /\ meta'.rootID # meta.rootID)
        /\ height' < height => (last'.op = "delete" /\ meta'.rootID # meta.rootID) ]_vars

C39_Witness ==
  /\ returned({"put"})
  /\ height = 2
  /\ last.key \in nodeKeys(stored(meta.rootID))
  /\ Cardinality(leaves) = 2

(***************************************************************************)
(* new and free under a file that fails: the call's writes succeed until   *)
(* the budget is used up, the next one fails.  With a budget of MaxWrites  *)
(* every write of a call succeeds.                                         *)
(***************************************************************************)
MaxWrites == 3

AllocateFailing ==
  /\ status = "open"
  /\ Cardinality(model) < MaxHeld
  /\ free # {} \/ lastPageId < MaxFullPages
  /\ \E pri \in picks(free, 1), io \in 0..MaxWrites :
       \E P \in {pager_new([pagerWith(pri) EXCEPT !.io = io])} :
         /\ commitPager(P)
         /\ last' = pagerRecord("new", 0, 0, P)
         /\ model' = IF ok(P) THEN model \cup {P.rv} ELSE model
  /\ UNCHANGED calls

FreeFailing ==
  /\ status = "open"
  /\ \E id \in model, pri \in ends(free), io \in 0..MaxWrites :
       \E P \in {pager_free([pagerWith(pri) EXCEPT !.io = io], id)} :
         /\ commitPager(P)
         /\ last' = pagerRecord("free", id, 0, P)
         /\ model' = IF ok(P) THEN model \ {id} ELSE model
  /\ UNCHANGED calls

NextAllocErr ==
  \/ AllocateFailing
  \/ FreeFailing

SpecAllocErr == InitAllocFull /\ [][NextAllocErr]_vars

(* C40: a new or free that returns an error because a write failed leaves the pager in    *)
(* memory as it was: the free set, the list pages with their ids and links, and the last  *)
(* page id.                                                                               *)
C40_ErrorAtomicity ==
  [][ (last'.op \in {"new", "free"} /\ last'.st = "err") =>
        (free' = free /\ cache' = cache /\ lastPageId' = lastPageId) ]_vars

====
